---- MODULE Spec2Model ----
(***************************************************************************)
(* The ProcessList of factomd (state/processList.go): the per-directory-   *)
(* block list of per-leader message queues (VMs), the admission of         *)
(* (ack, msg) pairs by AddToProcessList and the Process driver that        *)
(* advances the VM heights.                                                *)
(*                                                                         *)
(* Slots are numbered from 0 as in the Go code; the TLA+ sequences that    *)
(* hold them are indexed from 1, so slot h is element h + 1.               *)
(***************************************************************************)
EXTENDS Integers, Sequences, FiniteSets, TLC

(***************************************************************************)
(* Bounds of the model.                                                    *)
(***************************************************************************)
\* VM slots allocated by NewProcessList (65 in the code)
NumVMs == 2
\* ack.Height ranges over 0 .. MaxHeight - 1
MaxHeight == 2
\* message hashes are 1 .. NumMsgs
NumMsgs == 3
\* repeat hashes are 1 .. NumRepeat; message k has repeat hash ((k-1) % NumRepeat) + 1
NumRepeat == 3
\* the directory block height the list is built for
InitDBHeight == 5
\* the clock value at construction, in milliseconds
NowBase == 4000000
\* Process steps that would raise MissingRequestAskCnt beyond this are not taken
MaxAskCnt == 4
\* federated servers at construction
NumFed == 1
\* an ack's serial hash chains its message hash to one of the hashes 1 .. NumPrev
NumPrev == 1
\* the columns of serverMap (64 in the code)
MapCols == 3
\* chain ids of servers are 1 .. NumIDs
NumIDs == 3
\* a mutator that would leave more than MaxQueue messages for the elections
\* is not called
MaxQueue == 4
\* signatures are 1 .. NumSigs
NumSigs == 2
\* a directory block height whose product with 131 is beyond 2^32
BigHeight == 32786010
\* the clock of the node runs from NowBase to NowBase + MaxClock
MaxClock == 3100
\* the keys of entries
NumKeys == 3
\* lists that follow the list of construction
MaxLists == 2
\* pairs that are admitted in one order and in another
MaxPairs == 3

(***************************************************************************)
(* Program constants.                                                      *)
(***************************************************************************)
\* state.IdentityChainID: the chain id of this node
IdentityChainID == 1
\* seconds after which a self-authored ack is ignored
SelfAckMaxAge == 120
\* milliseconds between two missing message requests of a VM
AskDelay == 2000
\* constants.INMSGQUEUE_MED
INMSGQUEUE_MED == 2
\* the largest integer TLC holds; it stands for the uint32 values from 2^31 on
BigUInt32 == 2147483647
\* the replay filter accepts timestamps within this many milliseconds of now
ReplayRange == 3600000
\* the rows of serverMap, one per minute
NumMinutes == 10
\* 2^16: a uint32 is held as two halves of 16 bits
Word16 == 65536

Nil == [nil |-> TRUE]

(***************************************************************************)
(* Hashes, messages and acknowledgements.                                  *)
(***************************************************************************)
MsgHashes == 1 .. NumMsgs

\* the nil IHash
NilHash == -1

\* primitives.CreateHash(a, b): the hash of the two hashes, one after the
\* other; a*(NumMsgs+1)+b is injective on the hashes of the model.
CreateHash(a, b) == a * (NumMsgs + 1) + b

\* IMsg: GetMsgHash, GetRepeatHash, GetHash, GetTimestamp
Msg(k, t) ==
  [msgHash |-> k, repeatHash |-> ((k - 1) % NumRepeat) + 1, hash |-> 100 + k, ts |-> t]

GetMsgHash(m) == m.msgHash
GetRepeatHash(m) == m.repeatHash
GetHash(m) == m.hash
GetTimestamp(m) == m.ts

\* messages.Ack, the fields the ProcessList reads
Ack(vmIndex, dbHeight, height, serialHash, messageHash, leader, salt, response, ts, minute) ==
  [VMIndex |-> vmIndex, DBHeight |-> dbHeight, Height |-> height,
   SerialHash |-> serialHash, MessageHash |-> messageHash,
   LeaderChainID |-> leader, SaltNumber |-> salt, Response |-> response,
   Timestamp |-> ts, Minute |-> minute]

\* Ack.GetHash and Ack.GetMsgHash: "Both the ack and the message hash to the
\* same GetHash()"
AckGetHash(ack) == ack.MessageHash

\* Timestamp.GetTimeSeconds
GetTimeSeconds(ms) == ms \div 1000

\* state.GetSalt(ts): a number derived from the node's salt and the timestamp
GetSalt(ts) == ((ts \div 1000) + 7) % 16

\* the start index had the product of the height and 131 no width
StartIndexNoWrap(n, dbheight) == ((dbheight % n) * (131 % n)) % n

(***************************************************************************)
(* The minute map.                                                         *)
(***************************************************************************)
\* int(dbheight*131) % numberFedServers: the product is a uint32 and wraps at
\* 2^32.  The wrapped product is held as two 16 bit halves, hi*2^16 + lo,
\* and reduced modulo n half by half.
StartIndex(n, dbheight) ==
  LET c  == (dbheight % Word16) * 131
      lo == c % Word16
      hi == ((dbheight \div Word16) * 131 + (c \div Word16)) % Word16
  IN ((hi % n) * (Word16 % n) + (lo % n)) % n

\* the zero value of [10][64]int
ZeroMap == [i \in 0 .. NumMinutes - 1 |-> [j \in 0 .. MapCols - 1 |-> 0]]

\* the cells of a row had the index not moved on from one column to the next
RECURSIVE MapCellsSame(_, _, _, _, _)
MapCellsSame(m, i, j, x, n) ==
  IF j >= n THEN [map |-> m, indx |-> (x + 1) % n]
  ELSE MapCellsSame([m EXCEPT ![i][j] = x], i, j + 1, x, n)

\* for j := 0; j < numberFedServers; j++ { serverMap[i][j] = indx; indx = ... }
RECURSIVE MapCells(_, _, _, _, _)
MapCells(m, i, j, x, n) ==
  IF j >= n THEN [map |-> m, indx |-> x]
  ELSE MapCells([m EXCEPT ![i][j] = x], i, j + 1, (x + 1) % n, n)

\* the rows of the map had a minute begun where the minute before it ended
RECURSIVE MapRowsFlat(_, _, _, _)
MapRowsFlat(m, i, indx, n) ==
  IF i >= NumMinutes THEN m
  ELSE LET r == MapCells(m, i, 0, indx, n) IN MapRowsFlat(r.map, i + 1, r.indx, n)

\* for i := 0; i < 10; i++ { indx = (indx + 1) % numberFedServers; ... }
RECURSIVE MapRows(_, _, _, _)
MapRows(m, i, indx, n) ==
  IF i >= NumMinutes THEN m
  ELSE LET r == MapCells(m, i, 0, (indx + 1) % n, n)
       IN MapRows(r.map, i + 1, r.indx, n)

\* MakeMap(numberFedServers, dbheight)
MakeMap(n, dbheight) ==
  IF n > 0 THEN MapRows(ZeroMap, 0, StartIndex(n, dbheight), n) ELSE ZeroMap

\* serverMap[i][j] with j beyond the 64 columns: the index is out of range
MakeMapPanics(n) == n > MapCols

(***************************************************************************)
(* The federated and the audit servers.                                    *)
(***************************************************************************)
\* &Server{ChainID: identityChainID, Online: true}
Server(id, online) == [ChainID |-> id, Online |-> online]

\* the internal messages handed to the elections queue
ElectionMsg(k, dbHeight, id) == [DBHeight |-> dbHeight, ChainID |-> id, kind |-> k]

\* the membership of a list: the servers, the minute map and the elections
\* queue of the state
Membership(fed, audit, smap, queue) ==
  [FedServers |-> fed, AuditServers |-> audit, ServerMap |-> smap,
   electionsQueue |-> queue]

\* the chain ids of a list of servers, in its order
ChainIDs(servers) == [k \in 1 .. Len(servers) |-> servers[k].ChainID]

\* one pass of the inner loop of SortServers over servers[0 .. last]: the
\* list after the pass and whether the pass swapped nothing
RECURSIVE SortPass(_, _, _, _)
SortPass(servers, j, last, d) ==
  IF j >= last THEN [list |-> servers, done |-> d]
  ELSE IF servers[j + 1].ChainID > servers[j + 2].ChainID
       THEN SortPass([servers EXCEPT ![j + 1] = servers[j + 2],
                                     ![j + 2] = servers[j + 1]],
                     j + 1, last, FALSE)
       ELSE SortPass(servers, j + 1, last, d)

\* the outer loop of SortServers from pass i on
RECURSIVE SortFrom(_, _)
SortFrom(servers, i) ==
  IF i >= Len(servers) - 1 THEN servers
  ELSE LET r == SortPass(servers, 0, Len(servers) - 1 - i, TRUE)
       IN IF r.done THEN r.list ELSE SortFrom(r.list, i + 1)

\* SortServers(servers)
SortServers(servers) == SortFrom(servers, 0)

\* GetFedServerIndexHash and GetAuditServerIndexHash: whether the id is in the
\* list and its index, or the length of the list
IndexHash(servers, id) ==
  LET at == {k \in 1 .. Len(servers) : servers[k].ChainID = id}
  IN IF at = {} THEN [found |-> FALSE, index |-> Len(servers)]
     ELSE [found |-> TRUE, index |-> (CHOOSE k \in at : \A x \in at : k <= x) - 1]

\* append(s, nil); copy(s[i+1:], s[i:]); s[i] = x
InsertAt(servers, i, x) ==
  [k \in 1 .. Len(servers) + 1 |->
     IF k <= i THEN servers[k] ELSE IF k = i + 1 THEN x ELSE servers[k - 1]]

\* append(s[:i], s[i+1:]...)
RemoveAt(servers, i) ==
  [k \in 1 .. Len(servers) - 1 |-> IF k <= i THEN servers[k] ELSE servers[k + 1]]

\* RemoveAuditServerHash(id) on the membership M of a list at dbHeight
RemoveAuditServerHash(M, dbHeight, id) ==
  LET r == IndexHash(M.AuditServers, id)
  IN IF ~r.found THEN M
     ELSE [M EXCEPT
             !.AuditServers = RemoveAt(M.AuditServers, r.index),
             !.electionsQueue =
                Append(@, ElectionMsg("RemoveAuditInternal", dbHeight, id))]

\* RemoveFedServerHash had it left the minute map as it was
RemoveFedServerHashNoMap(M, dbHeight, id) ==
  LET r == IndexHash(M.FedServers, id)
  IN IF ~r.found THEN RemoveAuditServerHash(M, dbHeight, id)
     ELSE [M EXCEPT
             !.FedServers = RemoveAt(M.FedServers, r.index),
             !.electionsQueue =
                Append(@, ElectionMsg("RemoveLeaderInternal", dbHeight, id))]

\* RemoveFedServerHash(id)
RemoveFedServerHash(M, dbHeight, id) ==
  LET r == IndexHash(M.FedServers, id)
  IN IF ~r.found THEN RemoveAuditServerHash(M, dbHeight, id)
     ELSE [M EXCEPT
             !.FedServers = RemoveAt(M.FedServers, r.index),
             !.ServerMap = MakeMap(Len(M.FedServers) - 1, dbHeight),
             !.electionsQueue =
                Append(@, ElectionMsg("RemoveLeaderInternal", dbHeight, id))]

\* AddFedServer had it left an audit server in the audit list
AddFedServerKeepAudit(M, dbHeight, id) ==
  LET M1 == [M EXCEPT !.FedServers = SortServers(M.FedServers)]
      r  == IndexHash(M1.FedServers, id)
  IN IF r.found THEN M1
     ELSE [M1 EXCEPT
             !.FedServers = InsertAt(M1.FedServers, r.index, Server(id, TRUE)),
             !.ServerMap = MakeMap(Len(M1.FedServers) + 1, dbHeight),
             !.electionsQueue =
                Append(@, ElectionMsg("AddLeaderInternal", dbHeight, id))]

\* AddFedServer(id): the list is sorted first, the new server goes to the
\* index GetFedServerIndexHash returns, which is the end of the list
AddFedServer(M, dbHeight, id) ==
  LET M1 == [M EXCEPT !.FedServers = SortServers(M.FedServers)]
      r  == IndexHash(M1.FedServers, id)
      M2 == IF IndexHash(M1.AuditServers, id).found
            THEN RemoveAuditServerHash(M1, dbHeight, id) ELSE M1
  IN IF r.found THEN M1
     ELSE [M2 EXCEPT
             !.FedServers = InsertAt(M2.FedServers, r.index, Server(id, TRUE)),
             !.ServerMap = MakeMap(Len(M2.FedServers) + 1, dbHeight),
             !.electionsQueue =
                Append(@, ElectionMsg("AddLeaderInternal", dbHeight, id))]

\* AddAuditServer(id)
AddAuditServer(M, dbHeight, id) ==
  LET r  == IndexHash(M.AuditServers, id)
      M1 == IF IndexHash(M.FedServers, id).found
            THEN RemoveFedServerHash(M, dbHeight, id) ELSE M
  IN IF r.found THEN M
     ELSE [M1 EXCEPT
             !.AuditServers = InsertAt(M1.AuditServers, r.index, Server(id, TRUE)),
             !.electionsQueue =
                Append(@, ElectionMsg("AddAuditInternal", dbHeight, id))]

(***************************************************************************)
(* The directory block signatures.                                         *)
(***************************************************************************)
\* DBSig{ChainID, Signature, VMIndex}
DBSig(id, sig, vmIndex) == [VMIndex |-> vmIndex, ChainID |-> id, Signature |-> sig]

\* ContainsDBSig had it found no signature
ContainsDBSigNever(sigs, id) == FALSE

\* ContainsDBSig(serverID)
ContainsDBSig(sigs, id) == \E k \in 1 .. Len(sigs) : sigs[k].ChainID = id

\* GetVirtualServers(minute, id) after its p.MakeMap(): the first column of
\* the row of the minute that holds the index of the server
GetVirtualServers(fed, smap, minute, id) ==
  LET r  == IndexHash(fed, id)
      at == {c \in 0 .. Len(fed) - 1 : smap[minute][c] = r.index}
  IN IF ~r.found \/ at = {} THEN [found |-> FALSE, index |-> -1]
     ELSE [found |-> TRUE, index |-> CHOOSE c \in at : \A x \in at : c <= x]

\* one pass of the inner loop of SortDBSigs
RECURSIVE SortSigPass(_, _, _, _)
SortSigPass(sigs, j, last, d) ==
  IF j >= last THEN [list |-> sigs, done |-> d]
  ELSE IF sigs[j + 1].VMIndex > sigs[j + 2].VMIndex
       THEN SortSigPass([sigs EXCEPT ![j + 1] = sigs[j + 2], ![j + 2] = sigs[j + 1]],
                        j + 1, last, FALSE)
       ELSE SortSigPass(sigs, j + 1, last, d)

RECURSIVE SortSigFrom(_, _)
SortSigFrom(sigs, i) ==
  IF i >= Len(sigs) - 1 THEN sigs
  ELSE LET r == SortSigPass(sigs, 0, Len(sigs) - 1 - i, TRUE)
       IN IF r.done THEN r.list ELSE SortSigFrom(r.list, i + 1)

\* SortDBSigs()
SortDBSigs(sigs) == SortSigFrom(sigs, 0)

\* AddDBSig(serverID, sig): the signatures after the call
AddDBSig(fed, sigs, dbHeight, id, sig) ==
  LET v == GetVirtualServers(fed, MakeMap(Len(fed), dbHeight), 0, id)
  IN IF ~IndexHash(fed, id).found \/ ContainsDBSig(sigs, id) THEN sigs
     ELSE IF ~v.found THEN sigs
     ELSE SortDBSigs(Append(sigs, DBSig(id, sig, v.index)))

\* Complete had it not looked at the highest saved block
CompleteUnsaved(dbHeight, saved, fed, vms) ==
  \A i \in 0 .. Len(fed) - 1 :
    ~(vms[i].LeaderMinute < NumMinutes) /\ ~(vms[i].Height < Len(vms[i].List))

\* Complete()
Complete(dbHeight, saved, fed, vms) ==
  IF dbHeight <= saved THEN TRUE
  ELSE \A i \in 0 .. Len(fed) - 1 :
         ~(vms[i].LeaderMinute < NumMinutes) /\ ~(vms[i].Height < Len(vms[i].List))

(***************************************************************************)
(* The state.                                                              *)
(***************************************************************************)
VARIABLES
  DBHeight,              \* ProcessList.DBHeight
  FedServers,            \* ProcessList.FedServers
  VMs,                   \* ProcessList.VMs
  NextHeightToProcess,   \* ProcessList.NextHeightToProcess
  OldMsgs,               \* ProcessList.OldMsgs: the keys (message GetHash) of the map
  OldAcks,               \* ProcessList.OldAcks: the keys (message hashes) of the map
  Replay,                \* State.Replay: the hashes recorded for INTERNAL_REPLAY
  Holding,               \* State.Holding: message hash -> message
  Acks,                  \* State.Acks: message hash -> ack
  HighestAck,            \* State.HighestAck
  HighestSavedBlk,       \* State.GetHighestSavedBlk()
  PLProcessHeight,       \* State.PLProcessHeight
  Syncing,               \* State.Syncing
  WaitForEntries,        \* State.WaitForEntries
  EntryDBHeightComplete, \* State.EntryDBHeightComplete
  inMsgQueueLen,         \* State.inMsgQueue.Length()
  MissingRequestAskCnt,  \* State.MissingRequestAskCnt
  ResetRequest,          \* set by State.Reset()
  now,                   \* State.GetTimestamp(), in milliseconds
  sendOut,               \* what the last step handed to the network
  lastAdmit,             \* the return the last step left AddToProcessList by, or ""
  panicked,              \* "" while the node runs, else the panic that stopped it
  pc,                    \* where the Process call stands: "idle", "vm" or "slot"
  pi,                    \* Process: the loop variable i (0 outside a call)
  pj,                    \* Process: the loop variable j (0 outside a call)
  progress,              \* Process: the named result (FALSE outside a call)
  msgProcess,            \* the msg.Process invocation the last step made, or Nil
  AuditServers,          \* ProcessList.AuditServers
  ServerMap,             \* ProcessList.ServerMap
  electionsQueue,        \* State.electionsQueue
  DBSignatures,          \* ProcessList.DBSignatures
  askCall,               \* the Ask call of the last step: AskOf, AskHeld or Nil
  mapAccess,             \* the accesses of the last step to the hash-keyed maps
  previous,              \* the servers of the list NewProcessList was given, or Nil
  pump,                  \* the ack AddToProcessList has yet to write to ListAck, or Nil
  NewEntries,            \* ProcessList.NewEntries: the keys of the map
  keysCall               \* GetKeysNewEntries: Nil, the size it allocated, or its result

vars ==
  <<DBHeight, FedServers, VMs, NextHeightToProcess, OldMsgs, OldAcks, Replay,
    Holding, Acks, HighestAck, HighestSavedBlk, PLProcessHeight, Syncing,
    WaitForEntries, EntryDBHeightComplete, inMsgQueueLen, MissingRequestAskCnt,
    ResetRequest, now, sendOut, lastAdmit, panicked, pc, pi, pj, progress,
    msgProcess, AuditServers, ServerMap, electionsQueue, DBSignatures, askCall,
    mapAccess, previous, pump, NewEntries,
    keysCall>>

\* the membership besides FedServers, and the signatures
memberVars == <<AuditServers, ServerMap, electionsQueue, DBSignatures>>

\* the new entries of the list and the call that lists their keys
entryVars == <<NewEntries, keysCall>>

\* the variables of the State object that neither admission nor Process writes
envVars ==
  <<DBHeight, FedServers, HighestSavedBlk, Syncing, WaitForEntries,
    EntryDBHeightComplete, inMsgQueueLen, now, previous, pump, entryVars>>

\* the local variables of Process
procVars == <<pc, pi, pj, progress, msgProcess>>
procVars0 == <<pc, pi, pj, progress>>

VMIndexes == 0 .. NumVMs - 1

\* new(VM) as NewProcessList fills it in
NewVM(t) ==
  [Height |-> 0, List |-> <<>>, ListAck |-> <<>>, EomMinuteIssued |-> 0,
   LeaderMinute |-> 0, Synced |-> TRUE, heartBeat |-> 0, Signed |-> FALSE,
   WhenFaulted |-> 0, FaultFlag |-> 0, MMRequests |-> {}, MM_AskTime |-> 0,
   ProcessTime |-> t]

\* fedServer.SetOnline(true) for each server of the list
CarryFed(feds) == [k \in 1 .. Len(feds) |-> Server(feds[k].ChainID, TRUE)]

\* auditServer.SetOnline(false) for each server of the list but this node
CarryAudit(audits) ==
  [k \in 1 .. Len(audits) |->
     Server(audits[k].ChainID, audits[k].ChainID = IdentityChainID)]

\* NewProcessList(state, previous, dbheight), previous holding the federated
\* servers feds
NewProcessList(feds, audits, dbheight, t) ==
  /\ DBHeight = dbheight
  /\ FedServers = SortServers(CarryFed(feds))
  /\ AuditServers = CarryAudit(audits)
  /\ VMs = [i \in VMIndexes |-> NewVM(t)]
  /\ NextHeightToProcess = [i \in VMIndexes |-> 0]
  /\ ServerMap = MakeMap(Len(feds), dbheight)
  /\ DBSignatures = <<>>
  /\ OldMsgs = {}
  /\ OldAcks = {}
  /\ NewEntries = {}

\* state.GetNetworkBootStrapIdentity()
NetworkBootStrapIdentity == 2

\* NewProcessList(state, nil, dbheight): pl.AddFedServer(bootstrap) runs on the
\* new list before pl.DBHeight = dbheight, then the map is made for dbheight
NewProcessListNil(dbheight, t) ==
  LET r == AddFedServer(Membership(<<>>, <<>>, ZeroMap, <<>>), 0,
                        NetworkBootStrapIdentity)
  IN /\ DBHeight = dbheight
     /\ FedServers = r.FedServers
     /\ AuditServers = r.AuditServers
     /\ electionsQueue = r.electionsQueue
     /\ VMs = [i \in VMIndexes |-> NewVM(t)]
     /\ NextHeightToProcess = [i \in VMIndexes |-> 0]
     /\ ServerMap = MakeMap(Len(r.FedServers), dbheight)
     /\ DBSignatures = <<>>
     /\ OldMsgs = {}
     /\ OldAcks = {}
     /\ NewEntries = {}

\* slot h of a list, nil beyond its end
Slot(list, h) == IF h >= 0 /\ h < Len(list) THEN list[h + 1] ELSE Nil
SetSlot(list, h, v) == [list EXCEPT ![h + 1] = v]

\* for len(list) <= h { list = append(list, nil) }
Grow(list, h) ==
  IF Len(list) > h THEN list ELSE list \o [k \in 1 .. (h + 1 - Len(list)) |-> Nil]

\* the heights of the nil slots of a list
NilSlots(list) == {k \in 0 .. Len(list) - 1 : list[k + 1] = Nil}

\* delete(map, key)
MapDelete(f, k) == [x \in (DOMAIN f) \ {k} |-> f[x]]

(***************************************************************************)
(* The replay filter.                                                      *)
(***************************************************************************)
\* Replay.Valid(INTERNAL_REPLAY, hash, ts, now): the timestamp is within the
\* window around now and the hash has not been recorded
ReplayValid(rep, hash, ts, t) ==
  /\ t - ts <= ReplayRange
  /\ ts - t <= ReplayRange
  /\ hash \notin rep

\* Replay.IsTSValid_(INTERNAL_REPLAY, hash, ts, now): records a valid hash
IsTSValid_(rep, hash, ts, t) ==
  IF ReplayValid(rep, hash, ts, t) THEN rep \cup {hash} ELSE rep

(***************************************************************************)
(* Ask: the missing message request of a VM.                               *)
(***************************************************************************)
\* messages.NewMissingMsg(state, vmIndex, dbHeight, len(list)) with the nil
\* slots appended to its ProcessListHeight
MissingMsg(vmIndex, dbHeight, list) ==
  [VMIndex |-> vmIndex, DBHeight |-> dbHeight, kind |-> "missing",
   ProcessListHeight |-> {Len(list)} \cup NilSlots(list)]

\* a congested inbound queue had deferred every request
AskPassesDeferAll(vm, height, t, qlen) ==
  /\ \/ vm.MMRequests = {}
     \/ height \notin vm.MMRequests
     \/ t - vm.MM_AskTime >= AskDelay
  /\ ~(qlen > INMSGQUEUE_MED)

\* the request is neither throttled nor deferred
AskPasses(vm, height, t, qlen) ==
  /\ \/ vm.MMRequests = {}
     \/ height \notin vm.MMRequests
     \/ t - vm.MM_AskTime >= AskDelay
  /\ ~(height \in vm.MMRequests /\ qlen > INMSGQUEUE_MED)

\* Ask(vmIndex, height) on the VM vm: the VM after the call, what was sent
\* and the increment of MissingRequestAskCnt.  A nil MMRequests map reads as
\* the empty one.
Ask(vm, vmIndex, height, dbHeight, t, qlen) ==
  IF AskPasses(vm, height, t, qlen)
  THEN [vm   |-> [vm EXCEPT !.MM_AskTime = t,
                            !.MMRequests = {Len(vm.List)} \cup NilSlots(vm.List)],
        sent |-> <<MissingMsg(vmIndex, dbHeight, vm.List)>>,
        cnt  |-> 1]
  ELSE [vm |-> vm, sent |-> <<>>, cnt |-> 0]

NoAsk(vm) == [vm |-> vm, sent |-> <<>>, cnt |-> 0]

\* the arguments of an Ask call that sent a request, and those of a call that
\* sent none at the time t
AskOf(vmIndex, height) == [askVM |-> vmIndex, askHeight |-> height]
AskHeld(vmIndex, height, t) == [askVM |-> vmIndex, askHeight |-> height, heldAt |-> t]

\* Ask(vmIndex, height) called on the list: a negative vmIndex panics ("Old
\* Faulting code"), as does an index beyond the VMs
AskCall(vmIndex, height) ==
  /\ pc = "idle"
  /\ panicked = ""
  /\ lastAdmit' = ""
  /\ mapAccess' = <<>>
  /\ msgProcess' = Nil
  /\ askCall' = IF vmIndex \notin DOMAIN VMs THEN Nil
                ELSE IF AskPasses(VMs[vmIndex], height, now, inMsgQueueLen)
                THEN AskOf(vmIndex, height)
                ELSE AskHeld(vmIndex, height, now)
  /\ IF vmIndex < 0 \/ vmIndex \notin DOMAIN VMs
     THEN /\ panicked' = IF vmIndex < 0 THEN "ask" ELSE "index"
          /\ sendOut' = <<>>
          /\ UNCHANGED <<VMs, MissingRequestAskCnt>>
     ELSE LET a == Ask(VMs[vmIndex], vmIndex, height, DBHeight, now, inMsgQueueLen)
          IN /\ MissingRequestAskCnt + a.cnt <= MaxAskCnt
             /\ VMs' = [VMs EXCEPT ![vmIndex] = a.vm]
             /\ sendOut' = a.sent
             /\ MissingRequestAskCnt' = MissingRequestAskCnt + a.cnt
             /\ UNCHANGED panicked
  /\ UNCHANGED <<envVars, memberVars, NextHeightToProcess, OldMsgs, OldAcks, Replay, Holding,
                 Acks, HighestAck, PLProcessHeight, ResetRequest, pc, pi, pj,
                 progress>>

(***************************************************************************)
(* AddToProcessList                                                        *)
(***************************************************************************)
\* !ack.Response && ack.LeaderChainID.IsSameAs(p.State.IdentityChainID)
IsSelfAck(ack) == ~ack.Response /\ ack.LeaderChainID = IdentityChainID

\* a staleness test that lets every ack through
SelfAckNeverOld(ack, t) == FALSE

\* now.GetTimeSeconds()-ack.Timestamp.GetTimeSeconds() > 120
SelfAckTooOld(ack, t) ==
  GetTimeSeconds(t) - GetTimeSeconds(ack.Timestamp) > SelfAckMaxAge

\* num != ack.SaltNumber
SaltMismatch(ack) == GetSalt(ack.Timestamp) # ack.SaltNumber

\* len(vm.List) > int(ack.Height) && vm.List[ack.Height] != nil
SlotFilled(vm, h) == Len(vm.List) > h /\ vm.List[h + 1] # Nil

\* a height test that lets every ack through
WrongHeightNever(ack, dbHeight) == FALSE

\* ack.DBHeight != p.DBHeight
WrongHeight(ack, dbHeight) == ack.DBHeight # dbHeight

\* a comparison that finds no stored message the same as the incoming one
SameMessageNever(stored, m) == FALSE

\* vm.List[ack.Height].GetMsgHash().IsSameAs(m.GetMsgHash())
SameMessage(stored, m) == GetMsgHash(stored) = GetMsgHash(m)

\* ListAck after the loop that appends to List and ListAck while List is
\* not longer than h
GrowAck(vm, h) ==
  vm.ListAck \o [k \in 1 .. (Len(Grow(vm.List, h)) - Len(vm.List)) |-> Nil]

\* the return (or panic) AddToProcessList(ack, m) leaves by: "ackindex" is
\* the write of ListAck[ack.Height] beyond a ListAck shorter than List
AdmitPath(vms, rep, dbHeight, t, ack, m) ==
  IF ack = Nil \/ AckGetHash(ack) = NilHash THEN "nil"
  ELSE IF IsSelfAck(ack) /\ SelfAckTooOld(ack, t) THEN "stale"
  ELSE IF IsSelfAck(ack) /\ SaltMismatch(ack) THEN "salt"
  ELSE IF ack.VMIndex \notin DOMAIN vms THEN "index"
  ELSE IF /\ SlotFilled(vms[ack.VMIndex], ack.Height)
          /\ ~ReplayValid(rep, GetRepeatHash(m), GetTimestamp(m), t) THEN "replay"
  ELSE IF WrongHeight(ack, dbHeight) THEN "dbheight"
  ELSE IF SlotFilled(vms[ack.VMIndex], ack.Height)
       THEN IF SameMessage(Slot(vms[ack.VMIndex].List, ack.Height), m)
            THEN "duplicate"
            ELSE "conflict"
  ELSE IF ack.Height >= Len(GrowAck(vms[ack.VMIndex], ack.Height)) THEN "ackindex"
  ELSE "ok"

\* the slot had been left as it was
ClearSlotNot(vm, h) == vm

\* vm.List[ack.Height] = nil
ClearSlot(vm, h) == [vm EXCEPT !.List = SetSlot(@, h, Nil)]

\* a StoreSlot that records the message and leaves the ack of the slot alone
StoreSlotNoAck(vm, ack, m) ==
  [vm EXCEPT !.heartBeat = 0,
             !.List = SetSlot(Grow(vm.List, ack.Height), ack.Height, m),
             !.ListAck = Grow(vm.ListAck, ack.Height)]

\* a StoreSlot that appends the pair to the lists, whatever its height
StoreSlotAppend(vm, ack, m) ==
  [vm EXCEPT !.heartBeat = 0, !.List = Append(@, m), !.ListAck = Append(@, ack)]

\* a StoreSlot that also moves the height of the VM past the slot
StoreSlotAdvance(vm, ack, m) ==
  [vm EXCEPT !.Height = ack.Height + 1,
             !.heartBeat = 0,
             !.List = SetSlot(Grow(vm.List, ack.Height), ack.Height, m),
             !.ListAck = SetSlot(Grow(vm.ListAck, ack.Height), ack.Height, ack)]

\* the VM after the pair is recorded at ack.Height; the ack is not written
\* where ListAck ends before the slot
StoreSlot(vm, ack, m) ==
  LET la == GrowAck(vm, ack.Height)
  IN [vm EXCEPT !.heartBeat = 0,
                !.List = SetSlot(Grow(vm.List, ack.Height), ack.Height, m),
                !.ListAck = IF ack.Height < Len(la)
                            THEN SetSlot(la, ack.Height, ack) ELSE la]

\* the two sends the other way round
AdmitSendOutAckFirst(ack, m) ==
  <<[kind |-> "ack", body |-> ack], [kind |-> "msg", body |-> m]>>

\* m.SendOut(p.State, m); ack.SendOut(p.State, ack)
AdmitSendOut(ack, m) == <<[kind |-> "msg", body |-> m], [kind |-> "ack", body |-> ack]>>

\* one access to a hash-keyed map of the list, and the lock held during it
\* ("" when the task holds none of the locks of the list)
MapAccess(t, l) == [table |-> t, mutex |-> l]

\* p.AddOldMsgs(m) takes oldmsgslock around its write; the write
\* p.OldAcks[m.GetMsgHash().Fixed()] = ack stands in AddToProcessList itself
AdmitMapAccess ==
  <<MapAccess("OldMsgs", "oldmsgslock"), MapAccess("OldAcks", "")>>

\* toss: delete(p.State.Holding, ack.GetHash()); delete(p.State.Acks, ack.GetHash())
Toss(map, ack) == MapDelete(map, AckGetHash(ack))

\* the VMs as AddToProcessList(ack, m) leaves them on its way path
AdmitVMs(vms, path, ack, m) ==
  IF path = "conflict"
  THEN [vms EXCEPT ![ack.VMIndex] = ClearSlot(@, ack.Height)]
  ELSE IF path \in {"ok", "ackindex"}
  THEN [vms EXCEPT ![ack.VMIndex] = StoreSlot(@, ack, m)]
  ELSE vms

AddToProcessList(ack, m) ==
  /\ pc = "idle"
  /\ panicked = ""
  /\ LET path == AdmitPath(VMs, Replay, DBHeight, now, ack, m) IN
     /\ HighestAck' =
          IF ack # Nil /\ ack.DBHeight > HighestAck /\ ack.Minute > 0
          THEN ack.DBHeight ELSE HighestAck
     /\ panicked' = IF path \in {"salt", "index", "ackindex"} THEN path ELSE panicked
     /\ Holding' = IF path \in {"replay", "duplicate"} THEN Toss(Holding, ack)
                   ELSE IF path \in {"ok", "ackindex"}
                   THEN MapDelete(Holding, GetMsgHash(m))
                   ELSE Holding
     /\ Acks' = IF path \in {"replay", "duplicate"} THEN Toss(Acks, ack)
                ELSE IF path \in {"ok", "ackindex"} THEN MapDelete(Acks, GetMsgHash(m))
                ELSE Acks
     /\ VMs' = AdmitVMs(VMs, path, ack, m)
     /\ sendOut' = IF path \in {"ok", "ackindex"} THEN AdmitSendOut(ack, m) ELSE <<>>
     /\ lastAdmit' = path
     /\ askCall' = Nil
     /\ mapAccess' = IF path = "ok" THEN AdmitMapAccess ELSE <<>>
     /\ OldMsgs' = IF path = "ok" THEN OldMsgs \cup {GetHash(m)} ELSE OldMsgs
     /\ OldAcks' = IF path = "ok" THEN OldAcks \cup {GetMsgHash(m)} ELSE OldAcks
  /\ msgProcess' = Nil
  /\ UNCHANGED <<envVars, memberVars, NextHeightToProcess, Replay, PLProcessHeight,
                 MissingRequestAskCnt, ResetRequest, pc, pi, pj, progress>>

(***************************************************************************)
(* Process                                                                 *)
(***************************************************************************)
\* markFault(p, i, flag): the first fault observed sets the time and the flag
markFault(vm, flag, t) ==
  IF vm.WhenFaulted = 0
  THEN [vm EXCEPT !.WhenFaulted = t, !.FaultFlag = flag]
  ELSE [vm EXCEPT !.FaultFlag = flag]

\* markNoFault(p, i)
markNoFault(vm) == [vm EXCEPT !.WhenFaulted = 0, !.FaultFlag = 0]

\* the fault bookkeeping at the head of the loop over the VMs
FaultBookkeeping(vm, syncing, t) ==
  IF ~syncing THEN markNoFault(vm)
  ELSE IF ~vm.Synced
       THEN IF vm.WhenFaulted = 0 THEN markFault(vm, 0, t) ELSE vm
       ELSE IF vm.FaultFlag = 0 THEN markNoFault(vm) ELSE vm

\* primitives.CreateHash returns an error: a nil hash cannot be marshalled
CreateHashFails(a, b) == a = NilHash \/ b = NilHash

\* a comparison that accepts every serial hash
SerialHashAlwaysMatches(last, thisAck) == TRUE

\* expectedSerialHash.IsSameAs(thisAck.SerialHash)
SerialHashMatches(last, thisAck) ==
  CreateHash(last.MessageHash, thisAck.MessageHash) = thisAck.SerialHash

\* diff := p.DBHeight - state.EntryDBHeightComplete, on uint32: the difference
\* wraps to 2^32 - (complete - dbHeight) when complete is the larger
EntryDiff(dbHeight, complete) ==
  IF dbHeight >= complete THEN dbHeight - complete
  ELSE BigUInt32 - (complete - dbHeight - 1)

\* a gate that is closed whatever the entry sync
GateOpenNever(vm, wait, diff) == FALSE

\* !p.State.WaitForEntries || (vm.LeaderMinute < 2 && diff <= 3) || diff <= 2
GateOpen(vm, wait, diff) ==
  \/ ~wait
  \/ (vm.LeaderMinute < 2 /\ diff <= 3)
  \/ diff <= 2

\* the early return of Process taken only past the height of the list
AlreadySavedStrict == HighestSavedBlk > DBHeight

\* the directory block of this list is saved already
AlreadySaved == HighestSavedBlk >= DBHeight

\* Process starts: the early return on a saved block, else the loop over the
\* VMs begins
ProcessBegin ==
  /\ pc = "idle"
  /\ panicked = ""
  /\ sendOut' = <<>>
  /\ lastAdmit' = ""
  /\ mapAccess' = <<>>
  /\ msgProcess' = Nil
  /\ askCall' = Nil
  /\ IF AlreadySaved
     THEN UNCHANGED <<procVars, PLProcessHeight>>
     ELSE /\ progress' = FALSE
          /\ pc' = "vm"
          /\ pi' = 0
          /\ pj' = 0
          /\ PLProcessHeight' = DBHeight
  /\ UNCHANGED <<envVars, memberVars, VMs, NextHeightToProcess, OldMsgs, OldAcks, Replay,
                 Holding, Acks, HighestAck, MissingRequestAskCnt, ResetRequest,
                 panicked>>

\* the head of the loop body for VM i: the fault marks and the two asks of a
\* VM that is caught up; past the last federated server Process returns
ProcessVM ==
  /\ pc = "vm"
  /\ panicked = ""
  /\ msgProcess' = Nil
  /\ lastAdmit' = ""
  /\ mapAccess' = <<>>
  /\ IF pi >= Len(FedServers)
     THEN /\ pc' = "idle"
          /\ pi' = 0
          /\ pj' = 0
          /\ progress' = FALSE
          /\ sendOut' = <<>>
          /\ askCall' = Nil
          /\ UNCHANGED <<VMs, MissingRequestAskCnt>>
     ELSE LET vm1 == FaultBookkeeping(VMs[pi], Syncing, now)
              a1 == IF vm1.Height = Len(vm1.List) /\ Syncing /\ ~vm1.Synced
                    THEN Ask(vm1, pi, vm1.Height, DBHeight, now, inMsgQueueLen)
                    ELSE NoAsk(vm1)
              a2 == IF /\ a1.vm.Height = Len(a1.vm.List)
                       /\ now - a1.vm.ProcessTime > AskDelay
                    THEN Ask(a1.vm, pi, a1.vm.Height, DBHeight, now, inMsgQueueLen)
                    ELSE NoAsk(a1.vm)
          IN /\ MissingRequestAskCnt + a1.cnt + a2.cnt <= MaxAskCnt
             /\ VMs' = [VMs EXCEPT ![pi] = a2.vm]
             /\ sendOut' = a1.sent \o a2.sent
             /\ askCall' = IF a1.cnt + a2.cnt > 0 THEN AskOf(pi, vm1.Height) ELSE Nil
             /\ progress' = progress
             /\ MissingRequestAskCnt' = MissingRequestAskCnt + a1.cnt + a2.cnt
             /\ pc' = "slot"
             /\ pi' = pi
             /\ pj' = a2.vm.Height
  /\ UNCHANGED <<envVars, memberVars, NextHeightToProcess, OldMsgs, OldAcks, Replay, Holding,
                 Acks, HighestAck, PLProcessHeight, ResetRequest, panicked>>

\* what one pass of VMListLoop does with slot j of VM i
SlotPath(vm, j, rep, dbHeight, wait, complete, t) ==
  IF j >= Len(vm.List) THEN "end"
  ELSE IF vm.List[j + 1] = Nil THEN "nil"
  ELSE IF Slot(vm.ListAck, j) = Nil THEN "nilack"
  ELSE IF /\ vm.Height # 0
          /\ CreateHashFails(vm.ListAck[vm.Height].MessageHash,
                             vm.ListAck[j + 1].MessageHash) THEN "hasherr"
  ELSE IF /\ vm.Height # 0
          /\ ~SerialHashMatches(vm.ListAck[vm.Height], vm.ListAck[j + 1]) THEN "reset"
  ELSE IF ~GateOpen(vm, wait, EntryDiff(dbHeight, complete)) THEN "gated"
  ELSE IF ~ReplayValid(rep, GetRepeatHash(vm.List[j + 1]),
                       GetTimestamp(vm.List[j + 1]), t) THEN "replay"
  ELSE "process"

\* an Advance that steps over the next slot
AdvanceSkip(vm, j) == [vm EXCEPT !.heartBeat = 0, !.Height = j + 2]

\* the slot was processed: vm.heartBeat = 0; vm.Height = j + 1
Advance(vm, j) == [vm EXCEPT !.heartBeat = 0, !.Height = j + 1]

\* one pass of VMListLoop that leaves by path; ok is what
\* msg.Process(p.DBHeight, state) returns.  thisAck.SerialHash on a nil ack
\* stops the node
SlotStep(path, ok) ==
  /\ panicked = ""
  /\ lastAdmit' = ""
  /\ mapAccess' = <<>>
  /\ LET vm   == VMs[pi]
         j    == pj
         msg  == vm.List[j + 1]
         ask  == IF path = "nil" THEN Ask(vm, pi, j, DBHeight, now, inMsgQueueLen)
                 ELSE IF path = "hasherr"
                 THEN Ask(ClearSlot(vm, j), pi, j, DBHeight, now, inMsgQueueLen)
                 ELSE NoAsk(vm)
     IN /\ MissingRequestAskCnt + ask.cnt <= MaxAskCnt
        /\ MissingRequestAskCnt' = MissingRequestAskCnt + ask.cnt
        /\ sendOut' = ask.sent
        /\ askCall' = IF ask.cnt > 0 THEN AskOf(pi, j) ELSE Nil
        /\ VMs' = IF path \in {"nil", "hasherr"} THEN [VMs EXCEPT ![pi] = ask.vm]
                  ELSE IF path = "replay" THEN [VMs EXCEPT ![pi] = ClearSlot(vm, j)]
                  ELSE IF path = "process"
                  THEN [VMs EXCEPT ![pi] =
                          IF ok THEN Advance([vm EXCEPT !.ProcessTime = now], j)
                          ELSE [vm EXCEPT !.ProcessTime = now]]
                  ELSE VMs
        /\ ResetRequest' = IF path = "reset" THEN TRUE ELSE ResetRequest
        /\ NextHeightToProcess' =
             IF path \in {"replay", "process"}
             THEN [NextHeightToProcess EXCEPT ![pi] = j + 1]
             ELSE NextHeightToProcess
        /\ msgProcess' = IF path = "process"
                         THEN [vm |-> pi, slot |-> j, ret |-> ok] ELSE Nil
        /\ progress' = IF path = "reset" THEN FALSE
                       ELSE IF path = "process" /\ ok THEN TRUE
                       ELSE progress
        /\ Replay' = IF path = "process" /\ ok
                     THEN IsTSValid_(IsTSValid_(Replay, GetRepeatHash(msg),
                                                GetTimestamp(msg), now),
                                     GetMsgHash(msg), GetTimestamp(msg), now)
                     ELSE Replay
        /\ Acks' = IF path = "process" /\ ok
                   THEN MapDelete(Acks, GetMsgHash(msg)) ELSE Acks
        /\ Holding' = IF path = "process" /\ ok
                      THEN MapDelete(Holding, GetMsgHash(msg)) ELSE Holding
        /\ pc' = IF path = "reset" THEN "idle"
                 ELSE IF path = "process" /\ ok THEN "slot"
                 ELSE "vm"
        /\ pi' = IF path = "reset" THEN 0
                 ELSE IF path = "process" /\ ok THEN pi
                 ELSE pi + 1
        /\ pj' = IF path = "process" /\ ok THEN j + 1 ELSE 0
  /\ panicked' = IF path = "nilack" THEN path ELSE panicked
  /\ UNCHANGED <<envVars, memberVars, OldMsgs, OldAcks, HighestAck, PLProcessHeight>>

\* one pass of VMListLoop on the slot as it stands
ProcessSlot(ok) ==
  /\ pc = "slot"
  /\ SlotStep(SlotPath(VMs[pi], pj, Replay, DBHeight, WaitForEntries,
                       EntryDBHeightComplete, now), ok)

(***************************************************************************)
(* The membership mutators, AddDBSig, TrimVMList and Reset as operations   *)
(* of the list, and the steps of the node around it.                       *)
(***************************************************************************)
stateVars ==
  <<DBHeight, HighestSavedBlk, Syncing, WaitForEntries, EntryDBHeightComplete,
    inMsgQueueLen, now, previous, pump, entryVars>>
listVars == <<NextHeightToProcess, OldMsgs, OldAcks>>
nodeVars ==
  <<Replay, Holding, Acks, HighestAck, PLProcessHeight, MissingRequestAskCnt,
    ResetRequest>>

\* the operation is no admission, asks for nothing and processes nothing
Quiet ==
  /\ sendOut' = <<>>
  /\ lastAdmit' = ""
  /\ mapAccess' = <<>>
  /\ msgProcess' = Nil
  /\ askCall' = Nil

\* the membership of the list as the mutators take it
Mem == Membership(FedServers, AuditServers, ServerMap, electionsQueue)

\* a mutator returns with the membership r; a MakeMap on more federated
\* servers than the map has columns stops the node instead
Mutate(r) ==
  /\ pc = "idle"
  /\ panicked = ""
  /\ Len(r.electionsQueue) <= MaxQueue
  /\ FedServers' = r.FedServers
  /\ AuditServers' = r.AuditServers
  /\ electionsQueue' = r.electionsQueue
  /\ IF Len(r.FedServers) > Len(FedServers) /\ MakeMapPanics(Len(r.FedServers))
     THEN panicked' = "index" /\ ServerMap' = ServerMap
     ELSE ServerMap' = r.ServerMap /\ UNCHANGED panicked
  /\ Quiet
  /\ UNCHANGED <<stateVars, listVars, nodeVars, procVars0, VMs, DBSignatures>>

AddFedServerCall(id) == Mutate(AddFedServer(Mem, DBHeight, id))
AddAuditServerCall(id) == Mutate(AddAuditServer(Mem, DBHeight, id))
RemoveFedServerHashCall(id) == Mutate(RemoveFedServerHash(Mem, DBHeight, id))
RemoveAuditServerHashCall(id) == Mutate(RemoveAuditServerHash(Mem, DBHeight, id))

\* AddDBSig(serverID, sig): GetVirtualServers recomputes the map on its way
AddDBSigCall(id, sig) ==
  /\ pc = "idle"
  /\ panicked = ""
  /\ DBSignatures' = AddDBSig(FedServers, DBSignatures, DBHeight, id, sig)
  /\ ServerMap' = IF IndexHash(FedServers, id).found /\ ~ContainsDBSig(DBSignatures, id)
                  THEN MakeMap(Len(FedServers), DBHeight) ELSE ServerMap
  /\ Quiet
  /\ UNCHANGED <<stateVars, listVars, nodeVars, procVars0, VMs, FedServers,
                 AuditServers, electionsQueue, panicked>>

\* TrimVMList(height, vmIndex): a list not longer than height is resliced to
\* height.  A list of that length stays as it is; a shorter one is extended
\* over the nil elements of its backing array where the capacity append left
\* reaches height, and the reslice panics where it does not.  The list of
\* make([]interfaces.IMsg, 0) has no capacity.
TrimVMListCall(height, vmIndex) ==
  /\ pc = "idle"
  /\ panicked = ""
  /\ LET list == VMs[vmIndex].List IN
     IF Len(list) >= height
     THEN UNCHANGED <<VMs, panicked>>
     ELSE \E fits \in (IF list = <<>> THEN {FALSE} ELSE BOOLEAN) :
            IF fits
            THEN /\ VMs' = [VMs EXCEPT ![vmIndex].List = Grow(list, height - 1)]
                 /\ UNCHANGED panicked
            ELSE /\ panicked' = "slice"
                 /\ UNCHANGED VMs
  /\ Quiet
  /\ UNCHANGED <<stateVars, listVars, nodeVars, procVars0, FedServers, memberVars>>

\* Reset(): return true
ResetCall ==
  /\ pc = "idle"
  /\ panicked = ""
  /\ Quiet
  /\ UNCHANGED <<stateVars, listVars, nodeVars, procVars0, FedServers, memberVars,
                 VMs, panicked>>

\* the variables the steps of the node around the list leave alone
listState ==
  <<listVars, nodeVars, procVars0, FedServers, memberVars, sendOut, lastAdmit,
    msgProcess, askCall, mapAccess, panicked>>

\* the clock of the node moves on by d ms
Tick(d) ==
  /\ pc = "idle"
  /\ now + d <= NowBase + MaxClock
  /\ now' = now + d
  /\ UNCHANGED <<DBHeight, HighestSavedBlk, Syncing, WaitForEntries,
                 EntryDBHeightComplete, inMsgQueueLen, VMs, previous, pump, entryVars, listState>>

\* the inbound queue of the node fills or drains to q messages
QueueLength(q) ==
  /\ pc = "idle"
  /\ inMsgQueueLen # q
  /\ inMsgQueueLen' = q
  /\ UNCHANGED <<DBHeight, HighestSavedBlk, Syncing, WaitForEntries,
                 EntryDBHeightComplete, now, VMs, previous, pump, entryVars, listState>>

\* the end of minute messages of a VM have been processed up to minute m
EomProcessed(vmIndex, m) ==
  /\ pc = "idle"
  /\ VMs[vmIndex].LeaderMinute < m
  /\ VMs' = [VMs EXCEPT ![vmIndex].LeaderMinute = m]
  /\ UNCHANGED <<stateVars, listState>>

\* the directory block of the list has been saved
BlockSaved ==
  /\ pc = "idle"
  /\ HighestSavedBlk < DBHeight
  /\ HighestSavedBlk' = DBHeight
  /\ UNCHANGED <<DBHeight, Syncing, WaitForEntries, EntryDBHeightComplete,
                 inMsgQueueLen, now, VMs, previous, pump, entryVars, listState>>

(***************************************************************************)
(* The inputs and the specifications.                                      *)
(***************************************************************************)
\* a leader other than this node
OtherLeader == 2

\* the federated servers carried over from the previous list: n leaders other
\* than this node
InitFeds(n) == [i \in 1 .. n |-> Server(i + 1, TRUE)]

\* the acks of the other leader for this block, for the VMs vs, the heights
\* hs and the message hashes ks; the serial hash chains the message hash to
\* one of the hashes 1 .. NumPrev
LeaderAcks(vs, hs, ks) ==
  {Ack(v, InitDBHeight, h, CreateHash(q, k), k, OtherLeader, 0, FALSE, NowBase, 0) :
     v \in vs, h \in hs, q \in 1 .. NumPrev, k \in ks}

\* acks of the next block
NextBlockAcks(vs, hs, ks) ==
  {Ack(v, InitDBHeight + 1, h, CreateHash(1, k), k, OtherLeader, 0, FALSE, NowBase, 1) :
     v \in vs, h \in hs, k \in ks}

\* acks that name this node as their leader: fresh or older than 120 s, with
\* the salt number of this node or another
SelfAckTimes ==
  {NowBase, NowBase - SelfAckMaxAge * 1000, NowBase - (SelfAckMaxAge + 1) * 1000}
SelfAcks ==
  {Ack(0, InitDBHeight, 0, CreateHash(1, 1), 1, IdentityChainID, s, FALSE, ts, 0) :
     s \in {GetSalt(ts) : ts \in SelfAckTimes} \cup {GetSalt(NowBase) + 1},
     ts \in SelfAckTimes}

\* a response of this node: no self-authored ack whatever its salt and age
ResponseAcks ==
  {Ack(0, InitDBHeight, 0, CreateHash(1, 1), 1, IdentityChainID,
       GetSalt(NowBase) + 1, TRUE, ts, 0) : ts \in SelfAckTimes}

\* the message an ack acknowledges
MsgOf(ack) == Msg(ack.MessageHash, NowBase)

\* the fields of the State object a new list at dbheight meets
InitNode(dbheight) ==
  /\ Replay = {}
  /\ Holding = <<>>
  /\ Acks = <<>>
  /\ HighestAck = dbheight - 1
  /\ HighestSavedBlk = dbheight - 1
  /\ PLProcessHeight = dbheight - 1
  /\ Syncing = FALSE
  /\ WaitForEntries = FALSE
  /\ EntryDBHeightComplete = dbheight - 1
  /\ inMsgQueueLen = 0
  /\ MissingRequestAskCnt = 0
  /\ ResetRequest = FALSE
  /\ now = NowBase
  /\ sendOut = <<>>
  /\ lastAdmit = ""
  /\ panicked = ""
  /\ pc = "idle"
  /\ pi = 0
  /\ pj = 0
  /\ progress = FALSE
  /\ msgProcess = Nil
  /\ askCall = Nil
  /\ mapAccess = <<>>
  /\ pump = Nil
  /\ keysCall = Nil

\* the servers of the previous list after NewProcessList has gone over them
Previous(feds, audits) == [FedServers |-> feds, AuditServers |-> audits]

\* the state after NewProcessList(state, previous, dbheight) on a node whose
\* previous list held the servers feds and audits
InitState(feds, audits, dbheight) ==
  /\ NewProcessList(feds, audits, dbheight, NowBase)
  /\ previous = Previous(CarryFed(feds), CarryAudit(audits))
  /\ electionsQueue = <<>>
  /\ InitNode(dbheight)

\* the state after NewProcessList(state, previous, InitDBHeight) on a node
\* whose previous list held n federated servers and no audit server
InitWith(n) == InitState(InitFeds(n), <<>>, InitDBHeight)

Process ==
  \/ ProcessBegin
  \/ ProcessVM
  \/ \E ok \in BOOLEAN : ProcessSlot(ok)

\* the pairs the pump hands to AddToProcessList, and the nil ack
Admit(acks) ==
  \E ack \in acks \cup {Nil} :
    AddToProcessList(ack, IF ack = Nil THEN Msg(1, NowBase) ELSE MsgOf(ack))

\* one leader: the admissions to its VM and the processing of it
CoreAcks ==
  LeaderAcks({0}, 0 .. MaxHeight - 1, MsgHashes)
    \cup NextBlockAcks({0}, {0}, {1})

Init == InitWith(NumFed)

Next ==
  \/ Admit(CoreAcks)
  \/ Process

Spec == Init /\ [][Next]_vars

\* every VM has a leader: the last VM takes one message at height 0, the
\* others two messages
VMsAcks ==
  LeaderAcks(VMIndexes \ {NumVMs - 1}, 0 .. MaxHeight - 1, 1 .. NumMsgs - 1)
    \cup LeaderAcks({NumVMs - 1}, {0}, {NumMsgs})

InitVMs == InitWith(NumVMs)

NextVMs ==
  \/ Admit(VMsAcks)
  \/ Process

SpecVMs == InitVMs /\ [][NextVMs]_vars

\* the acks that name this node among those of the other leader
SelfSpecAcks ==
  SelfAcks \cup ResponseAcks \cup LeaderAcks({0}, 0 .. MaxHeight - 1, 1 .. NumMsgs - 1)

NextSelf ==
  \/ Admit(SelfSpecAcks)
  \/ Process

SpecSelf == Init /\ [][NextSelf]_vars

\* Ask called from outside Process, with any vmIndex from -1 on
NextFatal ==
  \/ Admit(LeaderAcks({0}, {0}, 1 .. NumMsgs - 1))
  \/ Process
  \/ \E i \in -1 .. NumVMs - 1, h \in 0 .. MaxHeight : AskCall(i, h)

SpecFatal == Init /\ [][NextFatal]_vars

\* Ask called from outside Process while the clock runs and the inbound
\* queue fills and drains
ClockSteps == {500, 2100}
QueueLengths == {0, INMSGQUEUE_MED + 1}
NextAsk ==
  \/ Admit(LeaderAcks({0}, {1}, {1}))
  \/ \E i \in VMIndexes, h \in 0 .. MaxHeight : AskCall(i, h)
  \/ \E d \in ClockSteps : Tick(d)
  \/ \E q \in QueueLengths : QueueLength(q)

SpecAsk == Init /\ [][NextAsk]_vars

\* every operation of the list: this node joins and leaves the federated
\* and the audit servers, so that there are no more federated servers than
\* VMs
LeaderMinutes == {NumMinutes}
NotProcess ==
  \/ Admit(LeaderAcks({0}, {0, 1}, {1}))
  \/ AskCall(0, 1)
  \/ AddDBSigCall(IdentityChainID, 1)
  \/ AddFedServerCall(IdentityChainID)
  \/ AddAuditServerCall(IdentityChainID)
  \/ RemoveFedServerHashCall(IdentityChainID)
  \/ RemoveAuditServerHashCall(IdentityChainID)
  \/ \E h \in 1 .. MaxHeight : TrimVMListCall(h, 0)
  \/ ResetCall

NextOps ==
  \/ NotProcess
  \/ Process
  \/ \E i \in VMIndexes, m \in LeaderMinutes : EomProcessed(i, m)
  \/ BlockSaved

SpecOps == Init /\ [][NextOps]_vars

\* the membership operations alone, from the lists a previous block can
\* leave at a low, an ordinary and a very high directory block
ServerIDs == 1 .. NumIDs
MapHeights == {0, InitDBHeight, BigHeight}
PrevFeds == {<<Server(2, TRUE)>>}
PrevAudits == {<<>>, <<Server(3, FALSE)>>}
InitMembers ==
  \E feds \in PrevFeds, audits \in PrevAudits, h \in MapHeights :
    InitState(feds, audits, h)

Members ==
  \/ \E id \in ServerIDs : AddFedServerCall(id)
  \/ \E id \in ServerIDs : AddAuditServerCall(id)
  \/ \E id \in ServerIDs : RemoveFedServerHashCall(id)
  \/ \E id \in ServerIDs : RemoveAuditServerHashCall(id)

NextMembers ==
  \/ Members
  \/ \E id \in ServerIDs, sig \in 1 .. NumSigs : AddDBSigCall(id, sig)

SpecMembers == InitMembers /\ [][NextMembers]_vars

\* the pump of the node keeps a pair it has received in state.Holding and
\* state.Acks, under the hash of the message, until the list takes it
MapPut(f, k, v) == [x \in (DOMAIN f) \cup {k} |-> IF x = k THEN v ELSE f[x]]
Held(ack) ==
  /\ pc = "idle"
  /\ AckGetHash(ack) \notin DOMAIN Holding
  /\ Holding' = MapPut(Holding, AckGetHash(ack), MsgOf(ack))
  /\ Acks' = MapPut(Acks, AckGetHash(ack), ack)
  /\ UNCHANGED <<stateVars, listVars, VMs, Replay, HighestAck, PLProcessHeight,
                 MissingRequestAskCnt, ResetRequest, procVars0, FedServers,
                 memberVars, sendOut, lastAdmit, msgProcess, askCall, mapAccess,
                 panicked>>

\* pairs that are held and then admitted: two messages of the other leader
\* for slot 0, one for the next block, and an ack of this node older than
\* 120 s
StaleSelfAcks == {a \in SelfAcks : SelfAckTooOld(a, NowBase) /\ ~SaltMismatch(a)}
HoldAcks ==
  LeaderAcks({0}, {0}, 1 .. NumMsgs - 1) \cup NextBlockAcks({0}, {0}, {NumMsgs})
    \cup StaleSelfAcks

NextHold ==
  \/ \E ack \in HoldAcks : Held(ack)
  \/ Admit(HoldAcks)
  \/ Process

SpecHold == Init /\ [][NextHold]_vars

\* admissions to every VM, with a federated server or without, while
\* federated servers come and go
InactiveIDs == {IdentityChainID, OtherLeader}
NextInactive ==
  \/ Admit(LeaderAcks(VMIndexes, {0}, {1}))
  \/ Process
  \/ \E id \in InactiveIDs : AddFedServerCall(id)
  \/ \E id \in InactiveIDs : RemoveFedServerHashCall(id)

SpecInactive == Init /\ [][NextInactive]_vars

\* the entry sync of the node is or is not waited for, and has the entry
\* blocks complete up to a height
EntrySync(wait, complete) ==
  /\ pc = "idle"
  /\ <<wait, complete>> # <<WaitForEntries, EntryDBHeightComplete>>
  /\ WaitForEntries' = wait
  /\ EntryDBHeightComplete' = complete
  /\ UNCHANGED <<DBHeight, HighestSavedBlk, Syncing, inMsgQueueLen, now, VMs, previous, pump,
                 entryVars, listState>>

\* the heights the entry sync is complete to: behind the list by 1 to 4
\* blocks, level with it, and one ahead of it
EntryHeights == {InitDBHeight + d : d \in {-4, -3, -2, -1, 0, 1}}

\* the end of minute 1 and the end of minute 2
GateMinutes == {1, 2}

\* two messages of one leader processed under the entry-block gate
NextGate ==
  \/ Admit(LeaderAcks({0}, 0 .. MaxHeight - 1, 1 .. NumMsgs - 1))
  \/ Process
  \/ \E wait \in BOOLEAN, complete \in EntryHeights : EntrySync(wait, complete)
  \/ \E m \in GateMinutes : EomProcessed(0, m)

SpecGate == Init /\ [][NextGate]_vars

\* the messages of one leader processed while the clock of the node moves
NextTime ==
  \/ Admit(LeaderAcks({0}, 0 .. MaxHeight - 1, {1}))
  \/ Process
  \/ \E d \in ClockSteps : Tick(d)

SpecTime == Init /\ [][NextTime]_vars

\* the membership operations on a list made with no previous list
InitBoot ==
  \E h \in MapHeights :
    /\ NewProcessListNil(h, NowBase)
    /\ previous = Nil
    /\ InitNode(h)

SpecBoot == InitBoot /\ [][NextMembers]_vars

\* AddToProcessList in a task of its own, step by step: the tests and the
\* writes up to p.VMs[ack.VMIndex].List[ack.Height] = m of a pair that is
\* taken, or the vm.List[ack.Height] = nil of a pair that conflicts
PumpAdmit(ack, m) ==
  /\ panicked = ""
  /\ pump = Nil
  /\ LET path == AdmitPath(VMs, Replay, DBHeight, now, ack, m) IN
     /\ path \in {"ok", "conflict"}
     /\ HighestAck' =
          IF ack.DBHeight > HighestAck /\ ack.Minute > 0 THEN ack.DBHeight ELSE HighestAck
     /\ Holding' = IF path = "ok" THEN MapDelete(Holding, GetMsgHash(m)) ELSE Holding
     /\ Acks' = IF path = "ok" THEN MapDelete(Acks, GetMsgHash(m)) ELSE Acks
     /\ VMs' = IF path = "ok"
               THEN [VMs EXCEPT ![ack.VMIndex] = StoreSlotNoAck(@, ack, m)]
               ELSE [VMs EXCEPT ![ack.VMIndex] = ClearSlot(@, ack.Height)]
     /\ sendOut' = IF path = "ok" THEN AdmitSendOut(ack, m) ELSE <<>>
     /\ lastAdmit' = IF path = "ok" THEN "" ELSE path
     /\ pump' = IF path = "ok" THEN ack ELSE Nil
  /\ askCall' = Nil
  /\ mapAccess' = <<>>
  /\ msgProcess' = Nil
  /\ UNCHANGED <<DBHeight, FedServers, HighestSavedBlk, Syncing, WaitForEntries,
                 EntryDBHeightComplete, inMsgQueueLen, now, previous, entryVars,
                 memberVars,
                 NextHeightToProcess, OldMsgs, OldAcks, Replay, PLProcessHeight,
                 MissingRequestAskCnt, ResetRequest, panicked, pc, pi, pj, progress>>

\* the rest of the AddToProcessList call: ListAck[ack.Height] = ack and the
\* two old maps
PumpStoreAck ==
  /\ panicked = ""
  /\ pump # Nil
  /\ VMs' = [VMs EXCEPT ![pump.VMIndex].ListAck = SetSlot(@, pump.Height, pump)]
  /\ OldMsgs' = OldMsgs \cup {GetHash(MsgOf(pump))}
  /\ OldAcks' = OldAcks \cup {GetMsgHash(MsgOf(pump))}
  /\ sendOut' = <<>>
  /\ lastAdmit' = "ok"
  /\ askCall' = Nil
  /\ mapAccess' = AdmitMapAccess
  /\ msgProcess' = Nil
  /\ pump' = Nil
  /\ UNCHANGED <<DBHeight, FedServers, HighestSavedBlk, Syncing, WaitForEntries,
                 EntryDBHeightComplete, inMsgQueueLen, now, previous, entryVars,
                 memberVars,
                 NextHeightToProcess, Replay, Holding, Acks, HighestAck,
                 PLProcessHeight, MissingRequestAskCnt, ResetRequest, panicked, pc,
                 pi, pj, progress>>

\* one pass of VMListLoop up to the gate: a slot that passes the gate is
\* read again for msg := vm.List[j] in a step of its own
ProcessSlotCheck ==
  /\ pc = "slot"
  /\ LET path == SlotPath(VMs[pi], pj, Replay, DBHeight, WaitForEntries,
                          EntryDBHeightComplete, now)
     IN IF path \in {"replay", "process"}
        THEN /\ panicked = ""
             /\ pc' = "msg"
             /\ NextHeightToProcess' = [NextHeightToProcess EXCEPT ![pi] = pj + 1]
             /\ Quiet
             /\ UNCHANGED <<envVars, memberVars, VMs, OldMsgs, OldAcks, Replay,
                            Holding, Acks, HighestAck, PLProcessHeight,
                            MissingRequestAskCnt, ResetRequest, panicked, pi, pj,
                            progress>>
        ELSE SlotStep(path, FALSE)

\* the replay gate of the message read at msg := vm.List[j]
TailPath(msg, rep, t) ==
  IF ~ReplayValid(rep, GetRepeatHash(msg), GetTimestamp(msg), t) THEN "replay"
  ELSE "process"

\* the pass from msg := vm.List[j] on; msg.GetRepeatHash() on a nil message
\* stops the node
ProcessSlotMsg(ok) ==
  /\ pc = "msg"
  /\ IF Slot(VMs[pi].List, pj) = Nil
     THEN /\ panicked = ""
          /\ panicked' = "nilmsg"
          /\ Quiet
          /\ UNCHANGED <<envVars, memberVars, VMs, NextHeightToProcess, OldMsgs,
                         OldAcks, Replay, Holding, Acks, HighestAck,
                         PLProcessHeight, MissingRequestAskCnt, ResetRequest, pc,
                         pi, pj, progress>>
     ELSE SlotStep(TailPath(Slot(VMs[pi].List, pj), Replay, now), ok)

\* the pump and the processor as two tasks: two messages of the other leader
\* for slot 0 and one for slot 1
RaceAcks == LeaderAcks({0}, {0}, 1 .. NumMsgs - 1) \cup LeaderAcks({0}, {1}, {1})

NextRace ==
  \/ \E ack \in RaceAcks : PumpAdmit(ack, MsgOf(ack))
  \/ PumpStoreAck
  \/ ProcessBegin
  \/ ProcessVM
  \/ ProcessSlotCheck
  \/ \E ok \in BOOLEAN : ProcessSlotMsg(ok)

SpecRace == Init /\ [][NextRace]_vars

\* the variables the calls on the new entries leave alone
notEntryVars ==
  <<DBHeight, FedServers, VMs, HighestSavedBlk, Syncing, WaitForEntries,
    EntryDBHeightComplete, inMsgQueueLen, now, previous, pump, listVars, nodeVars,
    procVars, memberVars, sendOut, lastAdmit, askCall, mapAccess>>

EntryKeys == 1 .. NumKeys

\* the zero value of [32]byte
ZeroKey == 0

\* AddNewEntry(key, value), under NewEntriesMutex
AddNewEntryCall(k) ==
  /\ panicked = ""
  /\ NewEntries' = NewEntries \cup {k}
  /\ UNCHANGED <<keysCall, panicked, notEntryVars>>

\* DeleteNewEntry(key), under NewEntriesMutex
DeleteNewEntryCall(k) ==
  /\ panicked = ""
  /\ NewEntries' = NewEntries \ {k}
  /\ UNCHANGED <<keysCall, panicked, notEntryVars>>

\* GetKeysNewEntries: keys = make([][32]byte, p.LenNewEntries()); the read
\* lock is held for the length and released again
GetKeysLen ==
  /\ panicked = ""
  /\ (keysCall = Nil \/ "keys" \in DOMAIN keysCall)
  /\ keysCall' = [size |-> Cardinality(NewEntries)]
  /\ UNCHANGED <<NewEntries, panicked, notEntryVars>>

\* the orders a range over the map can take its keys in
KeyOrders(S) ==
  {f \in [1 .. Cardinality(S) -> S] : \A a, b \in 1 .. Cardinality(S) : f[a] = f[b] => a = b}

\* GetKeysNewEntries: the loop, under the read lock taken anew: keys[i] = k
\* for each key of the map; an i beyond the allocated array stops the node
GetKeysCopy ==
  /\ panicked = ""
  /\ keysCall # Nil
  /\ "size" \in DOMAIN keysCall
  /\ IF Cardinality(NewEntries) > keysCall.size
     THEN /\ panicked' = "keysindex"
          /\ UNCHANGED keysCall
     ELSE /\ \E f \in KeyOrders(NewEntries) :
               keysCall' =
                 [held |-> NewEntries,
                  keys |-> [i \in 1 .. keysCall.size |->
                              IF i <= Cardinality(NewEntries) THEN f[i] ELSE ZeroKey]]
          /\ UNCHANGED panicked
  /\ UNCHANGED <<NewEntries, notEntryVars>>

\* one task lists the keys of the new entries while another adds and deletes
NextEntries ==
  \/ \E k \in EntryKeys : AddNewEntryCall(k)
  \/ \E k \in EntryKeys : DeleteNewEntryCall(k)
  \/ GetKeysLen
  \/ GetKeysCopy

SpecEntries == Init /\ [][NextEntries]_vars

\* the last VM is handed one pair for each height, the message of height h
\* being h + 1 and each ack chained to the message of the height below
LiveVM == NumVMs - 1
ChainAcks ==
  {Ack(LiveVM, InitDBHeight, h, CreateHash(h, h + 1), h + 1, OtherLeader, 0, FALSE,
       NowBase, 0) : h \in 0 .. MaxHeight - 1}

\* the other VMs are handed a pair for height 1, below which slot 0 is nil
\* until its pair comes, and stalled once it has come
StallAcks == LeaderAcks(VMIndexes \ {LiveVM}, {0, 1}, {NumMsgs})

\* Process with a msg.Process that returns true for the messages of the last
\* VM and false for those of the others
ProcessLive ==
  \/ ProcessBegin
  \/ ProcessVM
  \/ ProcessSlot(pi = LiveVM)

NextLive ==
  \/ Admit(ChainAcks \cup StallAcks)
  \/ ProcessLive

\* the processor task gets to run
SpecLive == InitVMs /\ [][NextLive]_vars /\ WF_vars(ProcessLive)

\* pl = NewProcessList(state, p, p.DBHeight + 1) for the list p of the node:
\* the new list takes the place of p, and p is the previous list from then
\* on.  The appends copy the server pointers of p, so the SetOnline calls
\* write the server records that p holds
NewProcessListCall ==
  /\ pc = "idle"
  /\ panicked = ""
  /\ DBHeight < InitDBHeight + MaxLists
  /\ previous' = Previous(CarryFed(FedServers), CarryAudit(AuditServers))
  /\ DBHeight' = DBHeight + 1
  /\ FedServers' = SortServers(CarryFed(FedServers))
  /\ AuditServers' = CarryAudit(AuditServers)
  /\ VMs' = [i \in VMIndexes |-> NewVM(now)]
  /\ NextHeightToProcess' = [i \in VMIndexes |-> 0]
  /\ ServerMap' = MakeMap(Len(FedServers), DBHeight + 1)
  /\ DBSignatures' = <<>>
  /\ OldMsgs' = {}
  /\ OldAcks' = {}
  /\ NewEntries' = {}
  /\ Quiet
  /\ UNCHANGED <<HighestSavedBlk, Syncing, WaitForEntries, EntryDBHeightComplete,
                 inMsgQueueLen, now, pump, keysCall, nodeVars, procVars0,
                 electionsQueue, panicked>>

\* a node whose lists follow one another while their servers change
InitCarry ==
  \E feds \in PrevFeds, audits \in PrevAudits :
    InitState(feds, audits, InitDBHeight)

NextCarry ==
  \/ Members
  \/ NewProcessListCall

SpecCarry == InitCarry /\ [][NextCarry]_vars

\* the pump alone: pairs of the other leader for the slots of VM 0, two
\* messages a slot, a pair for slot 0 of the other VMs, and the acks of this
\* node that do not stop it, admitted in any order
OrderAcks ==
  LeaderAcks({0}, 0 .. MaxHeight - 1, 1 .. NumMsgs - 1)
    \cup LeaderAcks(VMIndexes \ {0}, {0}, {NumMsgs})
    \cup {a \in SelfAcks : a.Timestamp # NowBase - SelfAckMaxAge * 1000 /\ ~SaltMismatch(a)}

NextOrder == Admit(OrderAcks)

SpecOrder == InitVMs /\ [][NextOrder]_vars

(***************************************************************************)
(* Properties.  Heights count from 0, sequence indexes from 1: slot i of a *)
(* list is list[i + 1].                                                    *)
(***************************************************************************)
Heights(list) == 0 .. Len(list) - 1

\* C1: in every reachable state every VM has len(list) = len(listAck),
\* 0 <= height <= len(list), and list[i] and listAck[i] non-null for every
\* i < height.
C1_PrefixFilled ==
  \A v \in VMIndexes :
    /\ Len(VMs[v].List) = Len(VMs[v].ListAck)
    /\ 0 <= VMs[v].Height
    /\ VMs[v].Height <= Len(VMs[v].List)
    /\ \A i \in 0 .. VMs[v].Height - 1 :
         Slot(VMs[v].List, i) # Nil /\ Slot(VMs[v].ListAck, i) # Nil

\* C2: in every reachable state, for every VM and every i with
\* 1 <= i < height, listAck[i].serialHash is the hash of
\* listAck[i-1].messageHash and listAck[i].messageHash.
C2_SerialChain ==
  \A v \in VMIndexes :
    \A i \in 1 .. VMs[v].Height - 1 :
      (Slot(VMs[v].ListAck, i - 1) # Nil /\ Slot(VMs[v].ListAck, i) # Nil)
        => Slot(VMs[v].ListAck, i).SerialHash
             = CreateHash(Slot(VMs[v].ListAck, i - 1).MessageHash,
                          Slot(VMs[v].ListAck, i).MessageHash)

\* C4 as stated: in every reachable state, for every VM and slot i, list[i]
\* is null exactly when listAck[i] is null.
C4_NullTogether ==
  \A v \in VMIndexes :
    \A i \in Heights(VMs[v].List) \cap Heights(VMs[v].ListAck) :
      (Slot(VMs[v].List, i) = Nil) <=> (Slot(VMs[v].ListAck, i) = Nil)

\* C4 as the code has it: in every reachable state, for every VM, the two
\* lists have the same length and a slot without an ack has no message; a
\* slot whose message was nulled keeps its ack.
C4_AckKept ==
  \A v \in VMIndexes :
    /\ Len(VMs[v].List) = Len(VMs[v].ListAck)
    /\ \A i \in Heights(VMs[v].List) :
         Slot(VMs[v].ListAck, i) = Nil => Slot(VMs[v].List, i) = Nil

\* a VM with a slot that was never filled and a slot whose message was nulled
C4_Witness ==
  \E v \in VMIndexes :
    \E i, k \in Heights(VMs[v].List) :
      /\ Slot(VMs[v].List, i) = Nil /\ Slot(VMs[v].ListAck, i) # Nil
      /\ Slot(VMs[v].List, k) = Nil /\ Slot(VMs[v].ListAck, k) = Nil

\* every ack the specifications hand to AddToProcessList
AllAcks == CoreAcks \cup VMsAcks \cup SelfSpecAcks

\* the step is AddToProcessList(ack, m) for the message of the ack
Admits(ack) == AddToProcessList(ack, MsgOf(ack))

\* C3: the height of a VM never decreases, and it changes only by +1 in a
\* step of Process on the slot at the height, which is filled and for which
\* msg.Process returned true; so the slots are processed in ascending order,
\* none skipped and none twice.
C3_HeightStep ==
  [][\A v \in VMIndexes :
       \/ VMs'[v].Height = VMs[v].Height
       \/ /\ VMs'[v].Height = VMs[v].Height + 1
          /\ pc = "slot"
          /\ pi = v
          /\ pj = VMs[v].Height
          /\ SlotFilled(VMs[v], pj)
          /\ msgProcess' = [vm |-> v, slot |-> pj, ret |-> TRUE]]_vars

\* the last slot of a VM was just processed, after the ones below it
C3_Witness ==
  \E v \in VMIndexes :
    /\ VMs[v].Height = MaxHeight
    /\ msgProcess = [vm |-> v, slot |-> MaxHeight - 1, ret |-> TRUE]

\* C5: in every reachable state every stored ack listAck[i] has height i and
\* the dbHeight of the list, and an admission of an ack with another dbHeight
\* changes the list and listAck of no VM.
C5_AckHeights ==
  /\ [](\A v \in VMIndexes :
          \A i \in Heights(VMs[v].ListAck) :
            Slot(VMs[v].ListAck, i) # Nil
              => /\ Slot(VMs[v].ListAck, i).Height = i
                 /\ Slot(VMs[v].ListAck, i).DBHeight = DBHeight)
  /\ [][\A ack \in AllAcks :
          (ack.DBHeight # DBHeight /\ Admits(ack)) => VMs' = VMs]_vars

\* an ack of the next block was just turned away from a VM that holds a pair
C5_Witness ==
  /\ lastAdmit = "dbheight"
  /\ HighestAck = DBHeight + 1
  /\ \E v \in VMIndexes : SlotFilled(VMs[v], 0)

\* C6: admitting a pair (ack, m) that the slot ack.height of the VM already
\* holds leaves every VM as it is and sends nothing.
C6_Idempotent ==
  [][\A ack \in AllAcks :
       (/\ Slot(VMs[ack.VMIndex].List, ack.Height) = MsgOf(ack)
        /\ Slot(VMs[ack.VMIndex].ListAck, ack.Height) = ack
        /\ Admits(ack))
         => (VMs' = VMs /\ sendOut' = <<>>)]_vars

\* a pair was just admitted a second time to a slot not yet processed
C6_Witness ==
  /\ lastAdmit = "duplicate"
  /\ sendOut = <<>>
  /\ \E v \in VMIndexes : SlotFilled(VMs[v], 0) /\ VMs[v].Height = 0

\* Process is at slot j >= 1 of VM i, the slot is filled, and the serial
\* hash of its ack is not the hash of the message hashes of slots j-1 and j
SerialMismatchAt(i, j) ==
  /\ j >= 1
  /\ SlotFilled(VMs[i], j)
  /\ Slot(VMs[i].ListAck, j).SerialHash
       # CreateHash(Slot(VMs[i].ListAck, j - 1).MessageHash,
                    Slot(VMs[i].ListAck, j).MessageHash)

\* C7: when Process reaches a filled slot j >= 1 whose serial hash does not
\* chain to slot j-1, it calls state.Reset() and returns at once: no
\* msg.Process for the slot, no VM changed (the height stays j), no later
\* slot or VM visited.
C7_ResetAborts ==
  [][(pc = "slot" /\ panicked = "" /\ SerialMismatchAt(pi, pj))
       => /\ ResetRequest'
          /\ pc' = "idle"
          /\ msgProcess' = Nil
          /\ VMs' = VMs
          /\ Replay' = Replay
          /\ NextHeightToProcess' = NextHeightToProcess]_vars

\* Process returned on a reset at slot 1 of the first VM while the last VM
\* holds a message it has not processed
C7_Witness ==
  /\ ResetRequest
  /\ pc = "idle"
  /\ lastAdmit = ""
  /\ VMs[0].Height = 1
  /\ SerialMismatchAt(0, 1)
  /\ SlotFilled(VMs[NumVMs - 1], 0)
  /\ VMs[NumVMs - 1].Height = 0

\* the ack is authored by this node and is no response
SelfAuthored(ack) == ~ack.Response /\ ack.LeaderChainID = IdentityChainID

\* the whole seconds between the timestamp of the ack and now
AgeSeconds(ack) == GetTimeSeconds(now) - GetTimeSeconds(ack.Timestamp)

\* C8: AddToProcessList fail-stops exactly when the ack is no response, names
\* this node as its leader, is at most 120 s older than now (in whole
\* seconds) and its salt number differs from state.GetSalt(ack.timestamp); a
\* self-authored ack more than 120 s old is dropped with no VM changed and
\* no fail-stop, whatever its salt number.
C8_FailStop ==
  [][\A ack \in AllAcks :
       Admits(ack)
         => /\ (panicked' # "")
                 <=> /\ SelfAuthored(ack)
                     /\ AgeSeconds(ack) <= SelfAckMaxAge
                     /\ GetSalt(ack.Timestamp) # ack.SaltNumber
            /\ (SelfAuthored(ack) /\ AgeSeconds(ack) > SelfAckMaxAge)
                 => (VMs' = VMs /\ panicked' = "")]_vars

\* the node stopped on an ack of its own that is 120 s old
C8_Witness ==
  /\ panicked = "salt"
  /\ lastAdmit = "salt"

\* a stale ack of this node with a foreign salt number was dropped
C8_StaleDropped ==
  /\ panicked = ""
  /\ lastAdmit = "stale"

\* C9: the salt mismatch of a self-authored ack is the only condition under
\* which an operation of the list panics, whatever the arguments.
C9_OnlySaltPanics == panicked \in {"", "salt"}

\* the admission stored the pair: the slot was not filled and now is
Stored(ack) ==
  /\ ack # Nil
  /\ ~SlotFilled(VMs[ack.VMIndex], ack.Height)
  /\ SlotFilled(VMs'[ack.VMIndex], ack.Height)

\* C10: an admission that stores the pair sends m and then ack, each once;
\* an admission that is turned away sends nothing.
C10_SendOrder ==
  [][\A ack \in AllAcks \cup {Nil} :
       LET m == IF ack = Nil THEN Msg(1, NowBase) ELSE MsgOf(ack)
       IN AddToProcessList(ack, m)
            => sendOut' = IF Stored(ack)
                          THEN <<[kind |-> "msg", body |-> m],
                                 [kind |-> "ack", body |-> ack]>>
                          ELSE <<>>]_vars

\* a pair was just stored at height 1 and sent out, the message first
C10_Witness ==
  /\ lastAdmit = "ok"
  /\ Len(sendOut) = 2
  /\ sendOut[1].kind = "msg"
  /\ sendOut[2].kind = "ack"
  /\ sendOut[2].body.Height = 1
  /\ sendOut[1].body = Slot(VMs[0].List, 1)

(***************************************************************************)
(* The minute map of the list.                                             *)
(***************************************************************************)
\* the row of a minute on the columns of the federated servers
MapRow(minute) == [j \in 0 .. Len(FedServers) - 1 |-> ServerMap[minute][j]]
Row3(a, b, c) == [j \in 0 .. 2 |-> IF j = 0 THEN a ELSE IF j = 1 THEN b ELSE c]

\* C12 as the code has it: with three federated servers at directory block 0
\* the row of minute 0 is (1, 2, 0) and the row of minute 1 is (2, 0, 1); a
\* minute starts one index after the index the minute before it ended on
C12_Rows ==
  (DBHeight = 0 /\ Len(FedServers) = 3) =>
    (MapRow(0) = Row3(1, 2, 0) /\ MapRow(1) = Row3(2, 0, 1))

\* C12 as stated: with three federated servers at directory block 0 the rows
\* of minute 0 and of minute 1 are both (1, 2, 0)
C12_RowsEqual ==
  (DBHeight = 0 /\ Len(FedServers) = 3) =>
    (MapRow(0) = Row3(1, 2, 0) /\ MapRow(1) = Row3(1, 2, 0))

\* a third federated server has been added at directory block 0
C12_Witness ==
  /\ DBHeight = 0
  /\ Len(FedServers) = 3
  /\ electionsQueue # <<>>
  /\ electionsQueue[Len(electionsQueue)].kind = "AddLeaderInternal"

\* the product of a height and 131 in 32 bits, for heights below 65572020:
\* 32786010 * 131 is 2^32 + 14
Times131(h) == IF h < 32786010 THEN h * 131 ELSE (h - 32786010) * 131 + 14

\* the table that starts at s and, minute by minute, advances by one and
\* fills the columns below n with successive indices; the other columns are 0
Rotation(n, s) ==
  [i \in 0 .. NumMinutes - 1 |->
     [j \in 0 .. MapCols - 1 |-> IF j < n THEN (s + i * (n + 1) + 1 + j) % n ELSE 0]]

\* C13 as the code has it: the map of the list is the rotation of its number
\* of federated servers that starts at the 32-bit product of the height and
\* 131, modulo that number; it is the zero table with no federated server
C13_Rotation ==
  LET n == Len(FedServers)
  IN ServerMap = IF n = 0 THEN ZeroMap ELSE Rotation(n, Times131(DBHeight) % n)

\* C13 as stated: the rotation starts at the product of the height and 131
\* modulo the number of federated servers
C13_Unbounded ==
  LET n == Len(FedServers)
  IN n > 0 => ServerMap = Rotation(n, ((DBHeight % n) * (131 % n)) % n)

\* the map has been computed for three federated servers at the height whose
\* product with 131 does not fit 32 bits
C13_Witness ==
  /\ DBHeight = BigHeight
  /\ Len(FedServers) = 3
  /\ ServerMap # Rotation(3, ((DBHeight % 3) * (131 % 3)) % 3)
  /\ electionsQueue # <<>>

(***************************************************************************)
(* The membership of the list.                                             *)
(***************************************************************************)
\* a list of servers in ascending order of chain id
Sorted(servers) ==
  \A k \in 1 .. Len(servers) - 1 : servers[k].ChainID <= servers[k + 1].ChainID

\* the set of the chain ids of a list of servers
IDSet(servers) == {servers[k].ChainID : k \in 1 .. Len(servers)}

\* C14: after every membership mutator the federated and the audit servers
\* are each in ascending order of chain id
C14_Sorted == Sorted(FedServers) /\ Sorted(AuditServers)

\* C15: no chain id is twice among the federated servers, twice among the
\* audit servers, or in both lists
C15_Unique ==
  /\ Cardinality(IDSet(FedServers)) = Len(FedServers)
  /\ Cardinality(IDSet(AuditServers)) = Len(AuditServers)
  /\ IDSet(FedServers) \cap IDSet(AuditServers) = {}

\* an audit server has just been made a federated server
C15_Witness ==
  /\ Len(electionsQueue) >= 2
  /\ LET a == electionsQueue[Len(electionsQueue) - 1]
         b == electionsQueue[Len(electionsQueue)]
     IN /\ a.kind = "RemoveAuditInternal"
        /\ b.kind = "AddLeaderInternal"
        /\ a.ChainID = b.ChainID
        /\ b.ChainID \in IDSet(FedServers)
        /\ b.ChainID \notin IDSet(AuditServers)

\* the servers of a list, whatever their order
ServerSet(servers) == {servers[k] : k \in 1 .. Len(servers)}

\* the chain ids that are neither federated nor audit servers
Outsiders == ServerIDs \ (IDSet(FedServers) \cup IDSet(AuditServers))

\* the membership after AddFedServer(id); RemoveFedServerHash(id);
\* AddAuditServer(id); RemoveAuditServerHash(id)
RoundTrip(id) ==
  RemoveAuditServerHash(
    AddAuditServer(
      RemoveFedServerHash(AddFedServer(Mem, DBHeight, id), DBHeight, id),
      DBHeight, id),
    DBHeight, id)

\* the four messages of the round trip of id
RoundTripMsgs(id) ==
  <<ElectionMsg("AddLeaderInternal", DBHeight, id),
    ElectionMsg("RemoveLeaderInternal", DBHeight, id),
    ElectionMsg("AddAuditInternal", DBHeight, id),
    ElectionMsg("RemoveAuditInternal", DBHeight, id)>>

\* C16: for an id in neither list, adding it as a federated server, removing
\* it, adding it as an audit server and removing it leaves the servers of
\* both lists and the minute map as they were and hands the elections
\* AddLeaderInternal, RemoveLeaderInternal, AddAuditInternal and
\* RemoveAuditInternal, in that order and nothing else
C16_RoundTrip ==
  \A id \in Outsiders :
    LET M == RoundTrip(id)
    IN /\ ServerSet(M.FedServers) = ServerSet(FedServers)
       /\ Len(M.FedServers) = Len(FedServers)
       /\ M.AuditServers = AuditServers
       /\ M.ServerMap = ServerMap
       /\ M.electionsQueue = electionsQueue \o RoundTripMsgs(id)

\* the four calls have been made on a list that held a federated server
C16_Witness ==
  \E id \in Outsiders :
    /\ electionsQueue = RoundTripMsgs(id)
    /\ FedServers # <<>>

\* C17: AddFedServer of an audit server takes it from the audit servers,
\* makes it an online federated server, hands the elections one
\* RemoveAuditInternal and then one AddLeaderInternal and leaves the minute
\* map of the new number of federated servers; AddFedServer and then
\* AddAuditServer leave an id an audit server only, AddAuditServer and then
\* AddFedServer a federated server only
C17_Promote ==
  /\ \A id \in IDSet(AuditServers) :
       LET M == AddFedServer(Mem, DBHeight, id)
           n == Len(FedServers) + 1
       IN /\ id \notin IDSet(M.AuditServers)
          /\ Len(M.AuditServers) = Len(AuditServers) - 1
          /\ Server(id, TRUE) \in ServerSet(M.FedServers)
          /\ Len(M.FedServers) = n
          /\ M.electionsQueue =
               electionsQueue \o <<ElectionMsg("RemoveAuditInternal", DBHeight, id),
                                   ElectionMsg("AddLeaderInternal", DBHeight, id)>>
          /\ M.ServerMap = Rotation(n, Times131(DBHeight) % n)
  /\ \A id \in ServerIDs :
       Len(FedServers) < MapCols \/ id \in IDSet(FedServers) =>
         LET FA == AddAuditServer(AddFedServer(Mem, DBHeight, id), DBHeight, id)
             AF == AddFedServer(AddAuditServer(Mem, DBHeight, id), DBHeight, id)
         IN /\ id \in IDSet(FA.AuditServers) /\ id \notin IDSet(FA.FedServers)
            /\ id \in IDSet(AF.FedServers) /\ id \notin IDSet(AF.AuditServers)

\* the audit server of the previous block has been made the second
\* federated server and is online
C17_Witness ==
  /\ electionsQueue # <<>>
  /\ LET b == electionsQueue[Len(electionsQueue)]
     IN /\ b.kind = "AddLeaderInternal"
        /\ Len(electionsQueue) >= 2
        /\ electionsQueue[Len(electionsQueue) - 1] =
             ElectionMsg("RemoveAuditInternal", DBHeight, b.ChainID)
        /\ FedServers[Len(FedServers)] = Server(b.ChainID, TRUE)
        /\ AuditServers = <<>>
        /\ ServerMap = MakeMap(Len(FedServers), DBHeight)

(***************************************************************************)
(* The directory block signatures of the list.                             *)
(***************************************************************************)
\* a call of AddDBSig for a server that is not federated or has a signature
AddDBSigRefused ==
  \E id \in ServerIDs, sig \in 1 .. NumSigs :
    /\ AddDBSigCall(id, sig)
    /\ id \notin IDSet(FedServers) \/ ContainsDBSig(DBSignatures, id)

\* C18: the signatures hold at most one entry for a chain id and are in
\* non-decreasing order of VMIndex, and AddDBSig for a server that is not
\* federated or already has an entry changes nothing of the list
C18_Sigs ==
  /\ [](/\ \A a, b \in 1 .. Len(DBSignatures) :
             DBSignatures[a].ChainID = DBSignatures[b].ChainID => a = b
        /\ \A a \in 1 .. Len(DBSignatures) - 1 :
             DBSignatures[a].VMIndex <= DBSignatures[a + 1].VMIndex)
  /\ [][AddDBSigRefused =>
          UNCHANGED <<DBSignatures, FedServers, AuditServers, ServerMap,
                      electionsQueue, VMs, panicked>>]_vars

\* two servers have signed, the later signature for the lower VM, and the
\* first signer has since been removed from the federated servers
C18_Witness ==
  /\ Len(DBSignatures) >= 2
  /\ DBSignatures[1].Signature # DBSignatures[2].Signature
  /\ DBSignatures[1].VMIndex < DBSignatures[2].VMIndex
  /\ DBSignatures[1].ChainID \notin IDSet(FedServers)

(***************************************************************************)
(* The throttle of Ask.                                                    *)
(***************************************************************************)
\* C11: two requests that Ask(i, h) sends for the same VM i and the same
\* height h are at least 2000 ms apart, whatever h is: a call that follows a
\* call that sent a request sends one only 2000 ms or more after it
C11_Throttle ==
  [][\A i \in VMIndexes, h \in 0 .. MaxHeight :
       (askCall = AskOf(i, h) /\ AskCall(i, h) /\ sendOut' # <<>>) =>
         now - VMs[i].MM_AskTime >= AskDelay]_vars

(***************************************************************************)
(* Complete.                                                               *)
(***************************************************************************)
\* every VM of a federated server is at minute 10 and at the end of its list
AllVMsDone ==
  \A i \in 0 .. Len(FedServers) - 1 :
    VMs[i].LeaderMinute = NumMinutes /\ VMs[i].Height = Len(VMs[i].List)

\* C19 as the code has it: Complete() is true exactly when the directory
\* block of the list is saved already or every VM of a federated server is
\* at minute 10 and at the end of its list
C19_Complete ==
  Complete(DBHeight, HighestSavedBlk, FedServers, VMs)
    <=> (DBHeight <= HighestSavedBlk \/ AllVMsDone)

\* C19 as stated: Complete() is true exactly when every VM of a federated
\* server is at minute 10 and at the end of its list, whatever the highest
\* saved block
C19_Iff ==
  Complete(DBHeight, HighestSavedBlk, FedServers, VMs)
    <=> AllVMsDone

\* the list of two federated servers is complete before its block is saved,
\* with a message processed in the first VM
C19_Witness ==
  /\ Complete(DBHeight, HighestSavedBlk, FedServers, VMs)
  /\ HighestSavedBlk < DBHeight
  /\ Len(FedServers) = 2
  /\ VMs[0].Height > 0

(***************************************************************************)
(* The heights of the VMs.                                                 *)
(***************************************************************************)
\* the height of some VM changes in the step
HeightChanges == \E i \in VMIndexes : VMs'[i].Height # VMs[i].Height

\* C20: AddToProcessList, Ask, AddDBSig, the four membership mutators,
\* TrimVMList and Reset leave the height of every VM as it is; a step that
\* changes a height is a step of Process
C20_OnlyProcess ==
  [][/\ NotProcess => ~HeightChanges
     /\ HeightChanges => (pc # "idle" /\ msgProcess' # Nil)]_vars

\* Process has moved the first VM on, TrimVMList has extended its list, and
\* this node has become a federated server and signed
C20_Witness ==
  /\ VMs[0].Height > 0
  /\ Len(VMs[0].List) > Len(VMs[0].ListAck)
  /\ DBSignatures # <<>>
  /\ electionsQueue # <<>>

(***************************************************************************)
(* The rejections of AddToProcessList.                                     *)
(***************************************************************************)
\* the returns of AddToProcessList that reject the pair
Rejections == {"stale", "replay", "duplicate", "conflict", "dbheight"}

\* C21: when AddToProcessList rejects a pair (stale ack of this node, filled
\* slot with a replayed, the same or another message, ack of another block)
\* state.Holding and state.Acks hold no entry of the pair afterwards
C21_RejectClears ==
  [][\A ack \in HoldAcks :
       (Admits(ack) /\ lastAdmit' \in Rejections) =>
         /\ AckGetHash(ack) \notin DOMAIN Holding'
         /\ AckGetHash(ack) \notin DOMAIN Acks']_vars


\* C22: an admission onto a filled slot whose stored message has its repeat
\* hash recorded in the replay filter, as every processed slot has, leaves
\* the message and the ack of the slot as they are, whatever comes in
C22_RecordedKept ==
  [][\A ack \in CoreAcks :
       (/\ Admits(ack)
        /\ SlotFilled(VMs[ack.VMIndex], ack.Height)
        /\ GetRepeatHash(Slot(VMs[ack.VMIndex].List, ack.Height)) \in Replay) =>
         /\ Slot(VMs'[ack.VMIndex].List, ack.Height) =
              Slot(VMs[ack.VMIndex].List, ack.Height)
         /\ Slot(VMs'[ack.VMIndex].ListAck, ack.Height) =
              Slot(VMs[ack.VMIndex].ListAck, ack.Height)]_vars


\* the admission of the step changes nothing of the VM of the ack but the
\* message of its slot, and sends nothing
OnlySlotMessage(ack) ==
  /\ VMs' = [VMs EXCEPT ![ack.VMIndex].List =
               SetSlot(@, ack.Height, Slot(VMs'[ack.VMIndex].List, ack.Height))]
  /\ sendOut' = <<>>
  /\ UNCHANGED <<OldMsgs, OldAcks>>

\* the ack passes the tests AddToProcessList makes of an ack of this node
PassesSelfTests(ack) ==
  ~(IsSelfAck(ack) /\ (SelfAckTooOld(ack, now) \/ SaltMismatch(ack)))

\* the pair of the ack is what the slot of the ack holds after the step
Refilled(ack) ==
  /\ Slot(VMs'[ack.VMIndex].List, ack.Height) = MsgOf(ack)
  /\ Slot(VMs'[ack.VMIndex].ListAck, ack.Height) = ack

\* an admission for this block that follows a conflicting admission, onto a
\* slot whose message is nulled and whose ack is still there
OntoCleared(ack) ==
  /\ Admits(ack)
  /\ lastAdmit = "conflict"
  /\ ack.Height < Len(VMs[ack.VMIndex].List)
  /\ Slot(VMs[ack.VMIndex].List, ack.Height) = Nil
  /\ Slot(VMs[ack.VMIndex].ListAck, ack.Height) # Nil
  /\ ack.DBHeight = DBHeight

C24_BackPressure ==
  [][\A i \in VMIndexes, h \in 0 .. MaxHeight :
       AskCall(i, h) =>
         LET asked     == h \in VMs[i].MMRequests
             due       == ~asked \/ now - VMs[i].MM_AskTime >= AskDelay
             congested == inMsgQueueLen > INMSGQUEUE_MED
         IN /\ ~asked => sendOut' # <<>>
            /\ due => (sendOut' = <<>> <=> (asked /\ congested))
            /\ sendOut' = <<>> => UNCHANGED <<VMs, MissingRequestAskCnt>>]_vars

\* an Ask for a height asked for two seconds or more ago has just sent
\* nothing
C24_Witness ==
  \E i \in VMIndexes, h \in 0 .. MaxHeight :
    /\ askCall = AskHeld(i, h, now)
    /\ h \in VMs[i].MMRequests
    /\ now - VMs[i].MM_AskTime >= AskDelay
    /\ sendOut = <<>>


(***************************************************************************)
(* The minute map and the VMs under the membership mutators.               *)
(***************************************************************************)
\* C25: after every membership mutator the minute map of the list is
\* MakeMap of its number of federated servers and its height, in all rows
\* and all columns
C25_MapCurrent == ServerMap = MakeMap(Len(FedServers), DBHeight)

\* a federated server has just been made an audit server, which has
\* changed the number of federated servers and the map
C25_Witness ==
  /\ Len(electionsQueue) >= 2
  /\ LET a == electionsQueue[Len(electionsQueue) - 1]
         b == electionsQueue[Len(electionsQueue)]
     IN /\ a.kind = "RemoveLeaderInternal"
        /\ b.kind = "AddAuditInternal"
        /\ a.ChainID = b.ChainID
  /\ FedServers # <<>>
  /\ ServerMap # MakeMap(Len(FedServers) + 1, DBHeight)


\* C26: there are at least as many VMs as federated servers, and a VM that
\* has no federated server has an empty list and is synced
C26_InactiveEmpty ==
  /\ Cardinality(DOMAIN VMs) >= Len(FedServers)
  /\ \A i \in DOMAIN VMs :
       i >= Len(FedServers) => (VMs[i].List = <<>> /\ VMs[i].Synced)


(***************************************************************************)
(* Process on a saved block.                                               *)
(***************************************************************************)
\* some VM holds a message Process has not handed on
Unprocessed ==
  \E i \in VMIndexes :
    /\ i < Len(FedServers)
    /\ VMs[i].Height < Len(VMs[i].List)
    /\ Slot(VMs[i].List, VMs[i].Height) # Nil

\* C27: a Process call on a list whose block is saved is over in its first
\* step and changes no VM, no height or fault mark, not plProcessHeight, the
\* replay filter, Holding or Acks; it asks for and sends nothing and hands no
\* message to msg.process
C27_SavedSkips ==
  [][(ProcessBegin /\ HighestSavedBlk >= DBHeight) =>
       /\ UNCHANGED <<VMs, NextHeightToProcess, PLProcessHeight,
                      MissingRequestAskCnt, Replay, Holding, Acks, OldMsgs,
                      OldAcks, ResetRequest, memberVars, envVars>>
       /\ pc' = "idle"
       /\ sendOut' = <<>>
       /\ askCall' = Nil
       /\ msgProcess' = Nil]_vars

\* the block is saved while a VM still holds an unprocessed message, and no
\* message has been handed on, asked for or sent
C27_Witness ==
  /\ HighestSavedBlk >= DBHeight
  /\ Unprocessed
  /\ pc = "idle"
  /\ sendOut = <<>>
  /\ askCall = Nil
  /\ msgProcess = Nil
  /\ lastAdmit = ""


(***************************************************************************)
(* The entry-block gate of Process.                                        *)
(***************************************************************************)
\* the pass of VMListLoop is at a filled slot whose serial hash is valid
AtGate ==
  /\ pc = "slot"
  /\ panicked = ""
  /\ SlotPath(VMs[pi], pj, Replay, DBHeight, WaitForEntries,
              EntryDBHeightComplete, now) \in {"gated", "replay", "process"}

\* the gate on the difference of the two heights as integers
IntegerGateOpen ==
  \/ ~WaitForEntries
  \/ (VMs[pi].LeaderMinute < 2 /\ DBHeight - EntryDBHeightComplete <= 3)
  \/ DBHeight - EntryDBHeightComplete <= 2

\* the pass hands the slot to the replay gate: msg.process takes it or the
\* filter has the slot nulled
HandedOn ==
  \/ msgProcess' # Nil
  \/ Slot(VMs'[pi].List, pj) = Nil

\* C28: at a filled slot with a valid serial hash, the pass hands the slot on
\* exactly when the gate on the integer difference H - entryDBHeightComplete
\* is open; behind a closed gate the slot stays filled and the height of the
\* VM is unchanged
C28_Gate ==
  [][\A ok \in BOOLEAN : (AtGate /\ ProcessSlot(ok)) =>
       /\ IntegerGateOpen <=> HandedOn
       /\ ~IntegerGateOpen =>
            /\ Slot(VMs'[pi].List, pj) = Slot(VMs[pi].List, pj)
            /\ VMs'[pi].Height = VMs[pi].Height]_vars

\* the same, while the entry sync is not ahead of the list
C28_GateBehind ==
  [][\A ok \in BOOLEAN : (AtGate /\ EntryDBHeightComplete <= DBHeight /\ ProcessSlot(ok)) =>
       /\ IntegerGateOpen <=> HandedOn
       /\ ~IntegerGateOpen =>
            /\ Slot(VMs'[pi].List, pj) = Slot(VMs[pi].List, pj)
            /\ VMs'[pi].Height = VMs[pi].Height]_vars


(***************************************************************************)
(* The locks of the hash-keyed maps.                                       *)
(***************************************************************************)
\* the lock the list holds for each of its maps
LockOf(t) ==
  CASE t = "OldMsgs" -> "oldmsgslock"
    [] t = "OldAcks" -> "oldackslock"
    [] t = "NewEBlocks" -> "neweblockslock"
    [] t = "NewEntries" -> "NewEntriesMutex"

\* C29: every access of a step to oldMsgs, oldAcks, newEBlocks or newEntries
\* is made under the lock of that map, the two writes of a successful
\* AddToProcessList included
C29_Locked ==
  \A k \in DOMAIN mapAccess : mapAccess[k].mutex = LockOf(mapAccess[k].table)


(***************************************************************************)
(* vm.ProcessTime.                                                         *)
(***************************************************************************)
\* C30: the processTime of a VM changes only in a step of Process in which
\* the height of that VM advances; it keeps its value when msg.process
\* returns false, when the slot is gated and when the replay filter rejects
\* the slot
C30_ProcessTime ==
  [][\A i \in VMIndexes :
       VMs'[i].ProcessTime # VMs[i].ProcessTime =>
         /\ pc = "slot"
         /\ VMs'[i].Height > VMs[i].Height]_vars

\* the processTime of a VM changes only in a pass of VMListLoop that hands
\* the slot to msg.process, whatever msg.process returns
C30_SetBeforeProcess ==
  [][\A i \in VMIndexes :
       VMs'[i].ProcessTime # VMs[i].ProcessTime =>
         /\ pc = "slot"
         /\ i = pi
         /\ msgProcess' # Nil]_vars


(***************************************************************************)
(* The messages for the elections.                                         *)
(***************************************************************************)
\* the messages a step has added to the elections queue
Enqueued ==
  {electionsQueue'[k] : k \in Len(electionsQueue) + 1 .. Len(electionsQueue')}

\* a call of a membership mutator with the chain id
MutatorCall(id) ==
  \/ AddFedServerCall(id)
  \/ AddAuditServerCall(id)
  \/ RemoveFedServerHashCall(id)
  \/ RemoveAuditServerHashCall(id)

\* C31: every message for the elections a list has enqueued carries the
\* height of the list, the AddLeaderInternal for the bootstrap identity of a
\* list made with no previous list included
C31_QueueHeight ==
  \A k \in DOMAIN electionsQueue : electionsQueue[k].DBHeight = DBHeight

\* the messages a mutator called with a chain id enqueues carry that chain
\* id and the height of the list
C31_MutatorMsgs ==
  [][\A id \in ServerIDs : MutatorCall(id) =>
       \A msg \in Enqueued : msg.ChainID = id /\ msg.DBHeight = DBHeight]_vars


(***************************************************************************)
(* AddFedServer on a federated server.                                    *)
(***************************************************************************)
\* C32: AddFedServer(id) for an id that is federated changes nothing: the
\* federated servers as a sequence, the audit servers, the minute map and the
\* elections queue are after the call what they were before it
C32_AddAgain ==
  [][\A id \in ServerIDs :
       (AddFedServerCall(id) /\ IndexHash(FedServers, id).found) =>
         UNCHANGED <<FedServers, AuditServers, ServerMap, electionsQueue>>]_vars

\* the same of every variable but the order of the federated servers, which
\* hold the same servers after the call
C32_AddAgainSorts ==
  [][\A id \in ServerIDs :
       (AddFedServerCall(id) /\ IndexHash(FedServers, id).found) =>
         /\ UNCHANGED <<AuditServers, ServerMap, electionsQueue>>
         /\ FedServers' = SortServers(FedServers)]_vars


(***************************************************************************)
(* The life of a list.                                                     *)
(***************************************************************************)
\* Complete() in the state
IsComplete == Complete(DBHeight, HighestSavedBlk, FedServers, VMs)

\* C33: a list that is complete stays complete: once Complete() is true it is
\* true after every further admission, Process step and membership change
C33_StaysComplete == [][IsComplete => IsComplete']_vars

\* the same of a list whose block is saved
C33_SavedStaysComplete ==
  [][(IsComplete /\ DBHeight <= HighestSavedBlk) => IsComplete']_vars


(***************************************************************************)
(* One VM for each federated server in each minute.                        *)
(***************************************************************************)
\* the columns of a minute that hold the index of a federated server
ColumnsOf(minute, index) ==
  {c \in 0 .. Len(FedServers) - 1 : ServerMap[minute][c] = index}

\* C34: in every minute the row of the map on the columns of the federated
\* servers is a permutation of their indices: each index is in exactly one
\* column; so GetVirtualServers finds a column for every federated server in
\* every minute, and AddDBSig never leaves by its not found branch
C34_OneVMEach ==
  \A minute \in 0 .. NumMinutes - 1 :
    /\ \A c \in 0 .. Len(FedServers) - 1 :
         ServerMap[minute][c] \in 0 .. Len(FedServers) - 1
    /\ \A k \in 1 .. Len(FedServers) :
         /\ Cardinality(ColumnsOf(minute, k - 1)) = 1
         /\ LET v == GetVirtualServers(FedServers, MakeMap(Len(FedServers), DBHeight),
                                       minute, FedServers[k].ChainID)
            IN v.found /\ ColumnsOf(minute, IndexHash(FedServers, FedServers[k].ChainID).index) = {v.index}

\* as many federated servers as the map has columns, one of which has signed
\* for a VM other than the first, at the height whose product with 131 wraps
C34_Witness ==
  /\ Len(FedServers) = MapCols
  /\ DBHeight = BigHeight
  /\ \E k \in 1 .. Len(DBSignatures) : DBSignatures[k].VMIndex > 0


(***************************************************************************)
(* The pump and the processor, read by read and write by write.            *)
(***************************************************************************)
\* C35: when Process comes to read slot j of a VM, a message in the slot has
\* its ack in ListAck[j]; and when it comes to read the message again after
\* its nil test, the message is still there
C35_NoTornSlot ==
  /\ (pc = "slot" /\ Slot(VMs[pi].List, pj) # Nil) => Slot(VMs[pi].ListAck, pj) # Nil
  /\ pc = "msg" => Slot(VMs[pi].List, pj) # Nil

\* Process is never stopped by a nil ack or a nil message
C35_NoNilPanic == panicked \notin {"nilack", "nilmsg"}


(***************************************************************************)
(* The keys of the new entries.                                            *)
(***************************************************************************)
\* C36: GetKeysNewEntries never indexes past the array it allocated, and
\* what it returns is the key set the map held at the instant of the copy:
\* as many keys as the map held, each of them a key of the map
C36_KeysSnapshot ==
  /\ panicked # "keysindex"
  /\ (keysCall # Nil /\ "keys" \in DOMAIN keysCall) =>
       /\ Len(keysCall.keys) = Cardinality(keysCall.held)
       /\ {keysCall.keys[i] : i \in DOMAIN keysCall.keys} = keysCall.held

\* a call with no entry added or deleted between its two lock acquisitions
\* returns the keys of the map
C36_QuietSnapshot ==
  [][(GetKeysCopy /\ keysCall.size = Cardinality(NewEntries)) =>
       /\ panicked' = ""
       /\ {keysCall'.keys[i] : i \in DOMAIN keysCall'.keys} = NewEntries]_vars


(***************************************************************************)
(* The progress of a VM.                                                   *)
(***************************************************************************)
\* every height below MaxHeight of the last VM is processed or holds a pair
ChainAdmitted ==
  \A h \in 0 .. MaxHeight - 1 :
    h < VMs[LiveVM].Height \/ Slot(VMs[LiveVM].List, h) # Nil

\* C37: once the pairs of a valid chain are in for every height below
\* MaxHeight of a VM, with the block unsaved, the gate open, the replay
\* filter accepting and msg.process returning true, the height of the VM
\* comes to MaxHeight if Process gets to run, whatever the nil or stalled
\* slots of the other VMs
C37_Reaches == ChainAdmitted ~> (VMs[LiveVM].Height >= MaxHeight)

\* the last VM has processed its chain while the first VM waits with a nil
\* slot 0 below a message
C37_Witness ==
  /\ VMs[LiveVM].Height = MaxHeight
  /\ Len(VMs[0].List) = 2
  /\ Slot(VMs[0].List, 0) = Nil
  /\ VMs[0].Height = 0


(***************************************************************************)
(* The signatures after a change of the federated servers.                 *)
(***************************************************************************)
\* C38: every entry of the signatures has the VMIndex of the VM that its
\* chain id owns in minute 0 under the current server map, its chain id is
\* a federated server, and no two entries have the same VMIndex, also after
\* federated servers were added or removed
C38_SigsFollowMap ==
  /\ \A a \in 1 .. Len(DBSignatures) :
       /\ IndexHash(FedServers, DBSignatures[a].ChainID).found
       /\ DBSignatures[a].VMIndex =
            GetVirtualServers(FedServers, ServerMap, 0, DBSignatures[a].ChainID).index
  /\ \A a, b \in 1 .. Len(DBSignatures) :
       DBSignatures[a].VMIndex = DBSignatures[b].VMIndex => a = b

\* two servers have signed for the same VM: the first signer was removed, and
\* the VM went to a server that signed after that
C38_SharedVM ==
  \A a, b \in 1 .. Len(DBSignatures) :
    DBSignatures[a].VMIndex = DBSignatures[b].VMIndex => a = b


(***************************************************************************)
(* The previous list of NewProcessList.                                    *)
(***************************************************************************)
\* C39: NewProcessList(state, previous, H) leaves previous as it was, its
\* federated and audit servers and the online flag of each of them, while
\* the new list holds the same chain ids, every federated server online and
\* every audit server but this node offline
C39_PreviousKept ==
  [][NewProcessListCall =>
       /\ previous' = Previous(FedServers, AuditServers)
       /\ IDSet(FedServers') = IDSet(FedServers)
       /\ ChainIDs(AuditServers') = ChainIDs(AuditServers)
       /\ \A k \in 1 .. Len(FedServers') : FedServers'[k].Online
       /\ \A k \in 1 .. Len(AuditServers') :
            AuditServers'[k].Online = (AuditServers'[k].ChainID = IdentityChainID)]_vars

\* NewProcessList leaves the chain ids of previous in their places, and the
\* new list holds them with the online flags of a new block
C39_Carried ==
  [][NewProcessListCall =>
       /\ ChainIDs(previous'.FedServers) = ChainIDs(FedServers)
       /\ ChainIDs(previous'.AuditServers) = ChainIDs(AuditServers)
       /\ IDSet(FedServers') = IDSet(FedServers)
       /\ ChainIDs(AuditServers') = ChainIDs(AuditServers)
       /\ \A k \in 1 .. Len(FedServers') : FedServers'[k].Online
       /\ \A k \in 1 .. Len(AuditServers') :
            AuditServers'[k].Online = (AuditServers'[k].ChainID = IdentityChainID)]_vars


(***************************************************************************)
(* The order of admissions.                                                *)
(***************************************************************************)
\* AddToProcessList for the pairs of acks, one after the other, on the VMs
\* vms of a node that runs (panic = ""): the VMs and the panic it ends with
RECURSIVE AdmitAll(_, _, _)
AdmitAll(vms, panic, acks) ==
  IF acks = <<>> \/ panic # "" THEN <<vms, panic>>
  ELSE LET ack  == Head(acks)
           path == AdmitPath(vms, Replay, DBHeight, now, ack, MsgOf(ack))
       IN AdmitAll(AdmitVMs(vms, path, ack, MsgOf(ack)),
                   IF path \in {"salt", "index", "ackindex"} THEN path ELSE "",
                   Tail(acks))

\* the sequences of 2 .. MaxPairs pairs of OrderAcks, all of the height of
\* the list, no two of them for the same slot of the same VM
DistinctPairs ==
  UNION {{acks \in [1 .. n -> OrderAcks] :
            \A a, b \in 1 .. n :
              (acks[a].VMIndex = acks[b].VMIndex /\ acks[a].Height = acks[b].Height)
                => a = b} : n \in 2 .. MaxPairs}

\* the orders of n pairs
Orders(n) == {p \in [1 .. n -> 1 .. n] : \A a, b \in 1 .. n : p[a] = p[b] => a = b}

\* List and ListAck of every VM
ListsOf(vms) == [i \in DOMAIN vms |-> <<vms[i].List, vms[i].ListAck>>]

\* C40: from any state of the list, pairs of its height for pairwise distinct
\* slots that are admitted with no Process call in between leave the same
\* List and ListAck in every VM in whatever order they are admitted (an
\* order that a panic ends admits no further pair)
C40_AnyOrder ==
  \A s \in DistinctPairs :
    \A p \in Orders(Len(s)) :
      LET rs == AdmitAll(VMs, panicked, s)
          rt == AdmitAll(VMs, panicked, [a \in 1 .. Len(s) |-> s[p[a]]])
      IN (rs[2] = "" /\ rt[2] = "") => ListsOf(rs[1]) = ListsOf(rt[1])

\* three pairs were admitted and nothing was processed: two messages of VM 0,
\* the one for slot 1 before the one for slot 0 was there, and one of VM 1
C40_Witness ==
  /\ lastAdmit = "ok"
  /\ Len(VMs[0].List) = 2
  /\ Slot(VMs[0].List, 0) # Nil
  /\ Slot(VMs[0].List, 1) # Nil
  /\ Slot(VMs[1].List, 0) # Nil
  /\ \A i \in VMIndexes : VMs[i].Height = 0

====
